---- MODULE Spec2Model ----
(***************************************************************************)
(* A model of honeybee: the block store (block.go), the source aggregator  *)
(* (source.go), the image proxy and analyzer (image.go) and the server's   *)
(* pipeline cycle (server.go).                                             *)
(*                                                                         *)
(* Specifications                                                          *)
(*   Spec         BlockStore.ReceiveBlocks as one atomic call              *)
(*   SpecReaders  ReceiveBlocks statement by statement beside List and Get *)
(*   SpecProxy    concurrent ProxyImage calls and their download tasks     *)
(*   SpecProxyFair  SpecProxy with fair scheduling of the tasks            *)
(*   SpecPipeline PullSources cycles: SendBlocksTo, analyzer, store        *)
(*   SpecScheduler  the update task, each PullSources cycle one step       *)
(*   SpecSchedulerFair  SpecScheduler with a fair task and timer           *)
(*   SpecCalls    single calls of functions, from any arguments            *)
(*   SpecForget   ForgettingCache: ForgetSome calls and writes             *)
(*   SpecAnalyzer one source's blocks through the analyzer's workers into  *)
(*                the store                                                *)
(*   SpecPool     the analyzer workers of the concurrent ReceiveBlocks     *)
(*                calls of one cycle                                       *)
(*   SpecCycles   the update task with its PullSources cycles step by step *)
(*                and the callers of StartUpdating and StopUpdating        *)
(***************************************************************************)
EXTENDS Integers, Sequences, FiniteSets, TLC

(***************************************************************************)
(* Bounds.                                                                 *)
(***************************************************************************)
\* longest block list handed to one BlockStore.ReceiveBlocks call
MaxNew == 2
\* timestamps are 1..MaxTime
MaxTime == 2
\* longest block list of a ReceiveBlocks call that runs step by step
MaxNewStep == 1
\* concurrent ProxyImage calls
NCallers == 2

(***************************************************************************)
(* Blocks.  A block is a record of the fields Block.Id() and ByTimeStamp   *)
(* read; origin is the Id() of the block's Origin, or NilOrigin when the   *)
(* Origin field is nil.                                                    *)
(***************************************************************************)
NilOrigin == "nil"
SourceIds == {"A", "B"}
Origins == SourceIds \cup {NilOrigin}
Titles == {"t1", "t2"}
Links == {"l"}
Contents == {"c"}
Times == 1..MaxTime

\* the blocks the sources build, and one block without an Origin
SourceBlock == [origin : SourceIds, title : Titles, link : Links, content : Contents, ts : Times]
NilBlock == [origin : {NilOrigin}, title : {"t1"}, link : Links, content : Contents, ts : {1}]
Block == SourceBlock \cup NilBlock

\* util.go IdEncodeStrings: the parts joined with "|", hashed and encoded.
\* SHA-1 and the base64 encoding are taken as injective, so the id is the
\* joined string itself.
RECURSIVE IdEncodeStrings(_)
IdEncodeStrings(parts) ==
    IF parts = <<>> THEN ""
    ELSE IF Len(parts) = 1 THEN parts[1]
    ELSE parts[1] \o "|" \o IdEncodeStrings(Tail(parts))

\* block.go Block.Id
Id(b) ==
    LET o_id == IF b.origin # NilOrigin THEN b.origin ELSE ""
    IN  IdEncodeStrings(<<o_id, b.title, b.link, b.content>>)

\* block.go ByTimeStamp.Less(i, j): bt[i].TimeStamp.After(bt[j].TimeStamp)
Less(bt, i, j) == bt[i].ts > bt[j].ts

Range(s) == {s[i] : i \in 1..Len(s)}

\* the sequences of length at most n over S
SeqsUpTo(S, n) == UNION {[1..k -> S] : k \in 0..n}

\* the orders in which the positions in P can be listed
RECURSIVE OrdersOf(_)
OrdersOf(P) ==
    IF P = {} THEN {<<>>}
    ELSE UNION {{<<i>> \o o : o \in OrdersOf(P \ {i})} : i \in P}

\* sort.Sort(ByTimeStamp(s)): sort.Sort is documented as not stable, so the
\* result is any permutation of s in which no element is Less than one
\* before it: the elements no other remaining element is Less than come
\* first, in any order, and the rest follows in the same way.
RECURSIVE SortPositions(_, _)
SortPositions(s, P) ==
    IF P = {} THEN {<<>>}
    ELSE LET top == {i \in P : \A j \in P : ~Less(s, j, i)}
         IN  {o \o r : o \in OrdersOf(top), r \in SortPositions(s, P \ top)}

\* ReceiveBlocks without its trailing sort.Sort
SortOutcomesUnsorted(s) == {s}

SortOutcomes(s) ==
    {[k \in 1..Len(s) |-> s[o[k]]] : o \in SortPositions(s, 1..Len(s))}

\* the source ids collected from a block list (ReceiveBlocks, lines 99-104)
SourceIdSetOf(newBlocks) ==
    {newBlocks[i].origin : i \in {k \in 1..Len(newBlocks) : newBlocks[k].origin # NilOrigin}}

\* s without the entries for the keys in ks
MapDelete(m, ks) == [k \in DOMAIN m \ ks |-> m[k]]

\* m after m[Id(b)] = b for each b of newBlocks, in order
RECURSIVE MapPutAll(_, _)
MapPutAll(m, newBlocks) ==
    IF newBlocks = <<>> THEN m
    ELSE LET b == Head(newBlocks)
             m1 == [k \in DOMAIN m \cup {Id(b)} |-> IF k = Id(b) THEN b ELSE m[k]]
         IN  MapPutAll(m1, Tail(newBlocks))

\* the source all blocks of a non-empty list are of, NoSource otherwise
NoSource == "none"
OnlySourceOf(newBlocks) ==
    LET os == {newBlocks[i].origin : i \in 1..Len(newBlocks)}
    IN  IF \E a \in SourceIds : os = {a} THEN CHOOSE a \in SourceIds : os = {a} ELSE NoSource

\* the blocks of s whose origin is o, in the order of s
OfSource(s, o) == SelectSeq(s, LAMBDA b : b.origin = o)

\* how often each block occurs in s
BagOf(s) == [b \in Range(s) |-> Cardinality({i \in 1..Len(s) : s[i] = b})]

IsSortedDesc(s) == \A i \in 1..(Len(s) - 1) : ~(s[i].ts < s[i + 1].ts)

(***************************************************************************)
(* State.                                                                  *)
(***************************************************************************)
VARIABLES
    blocks,     \* BlockStore.blocks
    index,      \* BlockStore.index
    panicked,   \* a ReceiveBlocks call dereferenced a nil Origin
    lastOnly,   \* history: the source every block of the last call's list was
                \* of, NoSource when there was none or more than one origin
    lastPurged, \* history: the last call purged a stored block
    lastOf      \* history: per source, the bag of its blocks in the most
                \* recent completed call that held one of them

\* a ReceiveBlocks call running step by step beside readers (SpecReaders)
VARIABLES
    rbPc,       \* where the call is: "idle", "purge", "append", "unlock"
    rbNew,      \* its argument newBlocks
    rbIdx,      \* the position of its running loop
    rbKeep,     \* its local blocksToKeep
    modifyMtx,  \* BlockStore.modifyMtx is held
    rbBlocks,   \* history: BlockStore.blocks when the call began
    rbIndex,    \* history: BlockStore.index when the call began
    seen        \* what the last List() or Get() of a reader observed

\* the image proxy with its ProxyImage callers and download tasks (SpecProxy)
VARIABLES
    cache,          \* ImgProxy.cache: cache key -> stored bytes or NoEntry
    operations,     \* ImgProxy.operations: url -> download operation
    operationsMtx,  \* ImgProxy.operationsMtx: its holder or NoHolder
    dlOps,          \* the download operations created so far, each with
                    \* its downloadAndCache task
    callers,        \* the ProxyImage calls
    upstreamGets,   \* history: http.Get calls made
    transforms,     \* history: imageproxy.Transform calls made
    cache0          \* history: the cache before the first call

\* one pipeline cycle after another: Server.PullSources with
\* Sources.SendBlocksTo and the ImageAnalyzer as receiver (SpecPipeline)
VARIABLES
    sources,     \* Server.sources, the configured sources in their order
    plPc,        \* PullSources: "idle", "collect" (in SendBlocksTo's receive
                 \* loop), "store" (SendBlocksTo has returned)
    srcPc,       \* per source, where its pullSource task is
    srcOutcome,  \* per source, what its GetBlocks returned in this cycle
    srcRead,     \* per source, the ia.outBlocks its append has read
    outBlocks,   \* ImageAnalyzer.outBlocks
    sendq,       \* the pullSource tasks blocked in sync_chan <- pull_err
    nReceived,   \* how many values SendBlocksTo has received from sync_chan
    sbErr,       \* SendBlocksTo's result err
    completion,  \* history: the sources in the order their tasks completed
    delivered,   \* history: per source, the lists handed to the receiver
    cycleBefore  \* history: BlockStore.blocks when the cycle began

\* the update task NewServer starts (SpecScheduler)
VARIABLES
    schedPc,        \* where the task is: "top" of its loop or in its "wait"
    doUpdating,     \* its local doUpdating
    updateTimeout,  \* its local updateTimeout
    updateInterval, \* Server.config.UpdateInterval
    lastWake,       \* history: what ended its last wait: "none", "start",
                    \* "stop" or "timer"
    lastSignal,     \* history: the last control signal received: "none",
                    \* "start" or "stop"
    pulled,         \* history: PullSources ran since the last wait ended
    cycleFailed     \* history: every source failed in the last call

\* one call of a function of the program (SpecCalls)
VARIABLES
    call,    \* the function called and its arguments
    result   \* what the call returned or wrote

\* The forgetting cache of cache.go on its own.
VARIABLES
    fcKeys,         \* the keys of ForgettingCache.d, each the CRC-32 of its name
    forgetPercent,  \* ForgettingCache.forgetPercent
    forgetCounter,  \* ForgettingCache.forgetCounter
    intSize,        \* the bits of the build's int: 32 or 64
    fcStart,        \* history: the keys after the last write
    fcErased,       \* history: per key, the ForgetSome calls since then that
                    \* erased it
    fcCalls         \* history: the ForgetSome calls since the last write

\* The image analyzer of image.go with its workers, for one source.
VARIABLES
    iaBlocks,   \* the blocks handed to ImageAnalyzer.ReceiveBlocks
    iaPc,       \* PullSources and the pullSource task: "get", "feed", "append",
                \* "returned" (ReceiveBlocks has returned), "stored"
    iaFed,      \* the blocks sent to in_chan so far
    iaWorkers,  \* per analyzeImageworker, where it is and its block
    iaOut,      \* ImageAnalyzer.outBlocks, as positions of iaBlocks
    iaStored,   \* the blocks as Store.ReceiveBlocks got them
    iaBusy      \* history: the workers that had a block in hand when
                \* Store.ReceiveBlocks was called

\* The update task beside the callers of StartUpdating and StopUpdating.
VARIABLES
    sending,    \* per caller, the value it is sending on doUpdatingChan, "none"
                \* when it is in no call, and history: whether its last send
                \* began during a cycle
    cycleTick,  \* history: flips when a PullSources call begins
    storeTick,  \* history: flips when the Store.ReceiveBlocks of a
                \* PullSources call returns
    pullErr     \* the err the last PullSources call returned to the task

\* The workers of the ReceiveBlocks calls of one cycle on one analyzer.
VARIABLES
    poolPc,     \* per source, where its pullSource task is: "fetch", "start"
                \* (in the loop that starts the workers), "feed", "closed"
    poolLen,    \* per source, the length of its block list
    poolFed,    \* per source, the blocks sent to in_chan
    poolAlive   \* per source, the workers of its call that have been started
                \* and have not ended

storeVars == <<blocks, index, panicked>>
callVars == <<call, result>>
poolVars == <<poolPc, poolLen, poolFed, poolAlive>>
cycleVars == <<sending, cycleTick, storeTick, pullErr>>
analyzerVars == <<iaBlocks, iaPc, iaFed, iaWorkers, iaOut, iaStored, iaBusy>>
forgetVars == <<fcKeys, forgetPercent, forgetCounter, intSize, fcStart, fcErased, fcCalls>>
\* the variables of the specifications of single units
unitVars == <<callVars, forgetVars, analyzerVars, cycleVars, poolVars>>
schedVars == <<schedPc, doUpdating, updateTimeout, updateInterval, lastWake, lastSignal,
               pulled, cycleFailed>>
histVars == <<lastOnly, lastPurged, lastOf>>
pipeVars == <<sources, plPc, srcPc, srcOutcome, srcRead, outBlocks, sendq, nReceived, sbErr,
              completion, delivered, cycleBefore>>
rbVars == <<rbPc, rbNew, rbIdx, rbKeep, modifyMtx, rbBlocks, rbIndex, seen>>
proxyVars == <<cache, operations, operationsMtx, dlOps, callers, upstreamGets, transforms, cache0>>
vars == <<storeVars, histVars, rbVars, proxyVars, pipeVars, schedVars, unitVars>>

\* what the actions of one specification leave alone
othersStore == <<rbVars, proxyVars, pipeVars, schedVars, unitVars>>
othersReaders == <<proxyVars, pipeVars, schedVars, unitVars>>
othersProxy == <<storeVars, histVars, rbVars, pipeVars, schedVars, unitVars>>
othersPipeline == <<rbVars, schedVars, unitVars, sources, operations, operationsMtx, dlOps, callers, upstreamGets,
                    transforms, cache0>>

\* block.go NewBlockStore
InitStore ==
    /\ blocks = <<>>
    /\ index = <<>>
    /\ panicked = FALSE

InitHist ==
    /\ lastOnly = NoSource
    /\ lastPurged = FALSE
    /\ lastOf = [s \in SourceIds |-> <<>>]

NothingSeen == [op |-> "none", complete |-> TRUE, sorted |-> TRUE]

InitReaders ==
    /\ rbPc = "idle"
    /\ rbNew = <<>>
    /\ rbIdx = 0
    /\ rbKeep = <<>>
    /\ modifyMtx = FALSE
    /\ rbBlocks = <<>>
    /\ rbIndex = <<>>
    /\ seen = NothingSeen

(***************************************************************************)
(* The image proxy, image.go.                                              *)
(***************************************************************************)
Urls == {"u"}
Callers == 1..NCallers

\* ImgProxy.transformOptions.String()
TransformOptions == "0x300"

\* image.go cacheKey: the hash of url, "|" and the transform options, the
\* hash taken as injective
cacheKey(url) == url \o "|" \o TransformOptions

CacheKeys == {cacheKey(u) : u \in Urls}

NoEntry == [kind |-> "none"]
\* bytes http.ReadResponse cannot parse
Corrupt == [kind |-> "corrupt"]
\* the framed response downloadAndCache builds (lines 108-128): status line
\* of the upstream response and the body, transformed or original
Framed(code, body) == [kind |-> "response", code |-> code, body |-> body]
StatusCodes == {200, 404}
Bodies == {"transformed", "original"}
Responses == {Framed(c, b) : c \in StatusCodes, b \in Bodies}

\* http.ReadResponse succeeds on the bytes
Parses(bytes) == bytes.kind = "response"

NoHolder == 0
NoOp == 0

\* the errors of http.Get and of ioutil.ReadAll (lines 102-107)
UpstreamErrors == {"geterr", "readerr"}
\* whether imageproxy.Transform succeeds (line 112)
TransformOutcomes == {"ok", "fail"}

NoData == [err |-> "none", from |-> NoOp, httpResponseData |-> NoEntry]

\* a response written for a caller: http.StatusNotModified is not modelled
\* here, the request carries no conditional headers
NoOutput == [err |-> "none", from |-> NoOp, xcache |-> "", code |-> 0, body |-> ""]

\* a ProxyImage call at its start; found is history: what its cache.Get met
NewCaller == [pc |-> "start", url |-> "u", op |-> NoOp, received |-> <<>>, resp |-> NoEntry,
              xcache |-> "HIT", out |-> NoOutput, found |-> "none"]

InitProxy ==
    /\ cache \in [CacheKeys -> {NoEntry, Corrupt, Framed(200, "transformed")}]
    /\ cache0 = cache
    /\ operations = [u \in Urls |-> NoOp]
    /\ operationsMtx = NoHolder
    /\ dlOps = <<>>
    /\ callers = [c \in Callers |-> NewCaller]
    /\ upstreamGets = 0
    /\ transforms = 0

InitProxyIdle ==
    /\ cache = [k \in CacheKeys |-> NoEntry]
    /\ cache0 = cache
    /\ operations = [u \in Urls |-> NoOp]
    /\ operationsMtx = NoHolder
    /\ dlOps = <<>>
    /\ callers = [c \in Callers |-> NewCaller]
    /\ upstreamGets = 0
    /\ transforms = 0

(***************************************************************************)
(* The configured sources of the server and what their GetBlocks returns.  *)
(***************************************************************************)
\* Server.sources, in their order
Sources == <<"S1", "S2", "S3">>
SourceSet == Range(Sources)

FreshBlock(s, title, ts) ==
    [origin |-> s, title |-> title, link |-> "l", content |-> "c", ts |-> ts]

\* the block lists a source's GetBlocks can return: none or one block, and
\* for the second source also a block of another title and time
FreshLists(s) ==
    {<<>>, <<FreshBlock(s, "t1", 1)>>}
        \cup (IF s = Sources[2] THEN {<<FreshBlock(s, "t2", 2)>>} ELSE {})

NoOutcome == [state |-> "pending", blocks |-> <<>>]
Failed == [state |-> "error", blocks |-> <<>>]
Fetched(list) == [state |-> "ok", blocks |-> list]

NoError == "nil"
\* the error a source's GetBlocks returns
ErrorOf(s) == "error of " \o s

InitPipeline ==
    /\ sources = Sources
    /\ plPc = "idle"
    /\ srcPc = [s \in SourceSet |-> "done"]
    /\ srcOutcome = [s \in SourceSet |-> NoOutcome]
    /\ srcRead = [s \in SourceSet |-> <<>>]
    /\ outBlocks = <<>>
    /\ sendq = <<>>
    /\ nReceived = 0
    /\ sbErr = NoError
    /\ completion = <<>>
    /\ delivered = [s \in SourceSet |-> <<>>]
    /\ cycleBefore = <<>>

\* server.go line 77, updateTimeout := 10
BootstrapTimeout == 10

\* the values of config.UpdateInterval: config.go sets a value below 1 to 0
Intervals == {0, 3}

InitSchedulerWith(interval) ==
    /\ schedPc = "top"
    /\ doUpdating = FALSE
    /\ updateTimeout = BootstrapTimeout
    /\ updateInterval = interval
    /\ lastWake = "none"
    /\ lastSignal = "none"
    /\ pulled = FALSE
    /\ cycleFailed = FALSE

InitScheduler == InitSchedulerWith(0)

NoCall == [fn |-> "none"]

InitCalls ==
    /\ call = NoCall
    /\ result = NoCall

\* a CRC-32 value: its highest bit and its lower 31 bits
Hashes == [top : BOOLEAN, low : {0, 7, 12}]

\* cache.go NewForgettingCache: forgetCounter 0, no key written yet; the
\* image proxy makes it with forgetPercent 10 on a build with an int of
\* bits bits
InitForgetWith(percent, bits) ==
    /\ fcKeys = {}
    /\ forgetPercent = percent
    /\ forgetCounter = 0
    /\ intSize = bits
    /\ fcStart = {}
    /\ fcErased = [k \in Hashes |-> 0]
    /\ fcCalls = 0

InitForget == InitForgetWith(10, 64)

\* runtime.NumCPU() * 2 workers, image.go line 294
NWorkers == 2
Workers == 1..NWorkers

\* a worker waiting at "for block := range in_chan"
IdleWorker == [pc |-> "recv", block |-> 0]

\* NewImageAnalyzer, image.go lines 263-267, and the workers not started
InitAnalyzer ==
    /\ iaBlocks = <<>>
    /\ iaPc = "get"
    /\ iaFed = 0
    /\ iaWorkers = [w \in Workers |-> IdleWorker]
    /\ iaOut = <<>>
    /\ iaStored = <<>>
    /\ iaBusy = {}

\* concurrent callers of StartUpdating and StopUpdating
NSenders == 1
Senders == 1..NSenders

NotSending == [v |-> "none", during |-> FALSE]

InitCycles ==
    /\ sending = [i \in Senders |-> NotSending]
    /\ cycleTick = FALSE
    /\ storeTick = FALSE
    /\ pullErr = NoError

\* source.go lines 35-37: one pullSource task per source has been started
InitPool ==
    /\ poolPc = [s \in SourceSet |-> "fetch"]
    /\ poolLen = [s \in SourceSet |-> 0]
    /\ poolFed = [s \in SourceSet |-> 0]
    /\ poolAlive = [s \in SourceSet |-> 0]

InitUnits == InitCalls /\ InitForget /\ InitAnalyzer /\ InitCycles /\ InitPool

\* block.go BlockStore.List
List == blocks

\* block.go BlockStore.Size
Size == Len(blocks)

\* block.go BlockStore.Get: found, and the block when found
Found(blockId) == blockId \in DOMAIN index

(***************************************************************************)
(* BlockStore.ReceiveBlocks(newBlocks), block.go lines 97-127.             *)
(***************************************************************************)
\* the position of the first stored block whose Origin is nil, 0 if none:
\* line 112 calls block.Origin.Id() on it and panics
FirstNil(s) ==
    LET nils == {i \in 1..Len(s) : s[i].origin = NilOrigin}
    IN  IF nils = {} THEN 0 ELSE CHOOSE i \in nils : \A j \in nils : i <= j

\* the ids deleted from the index while purging s[1..n]
PurgedIds(s, n, sourceIdSet) ==
    {Id(s[i]) : i \in {k \in 1..n : s[k].origin \in sourceIdSet}}

\* a purge loop that keeps every stored block
BlocksToKeepAll(s, sourceIdSet) == s

\* the purge loop, lines 110-119
BlocksToKeep(s, sourceIdSet) == SelectSeq(s, LAMBDA b : b.origin \notin sourceIdSet)

ReceiveBlocks(newBlocks) ==
    LET sourceIdSet == SourceIdSetOf(newBlocks)
        nil == FirstNil(blocks)
    IN  /\ ~panicked
        /\ lastOnly' = OnlySourceOf(newBlocks)
        /\ IF nil # 0
           THEN \* the purge loop panics at the nil Origin: the index has lost
                \* the entries purged so far, bs.blocks is not yet assigned
                /\ panicked' = TRUE
                /\ index' = MapDelete(index, PurgedIds(blocks, nil - 1, sourceIdSet))
                /\ lastPurged' = FALSE
                /\ UNCHANGED <<blocks, lastOf>>
           ELSE /\ panicked' = FALSE
                /\ index' = MapPutAll(
                       MapDelete(index, PurgedIds(blocks, Len(blocks), sourceIdSet)),
                       newBlocks)
                /\ blocks' \in SortOutcomes(BlocksToKeep(blocks, sourceIdSet) \o newBlocks)
                /\ lastPurged' = (\E i \in 1..Len(blocks) : blocks[i].origin \in sourceIdSet)
                /\ lastOf' = [s \in SourceIds |->
                       IF s \in sourceIdSet THEN BagOf(OfSource(newBlocks, s))
                       ELSE lastOf[s]]

StoreCall ==
    /\ \E newBlocks \in SeqsUpTo(Block, MaxNew) : ReceiveBlocks(newBlocks)
    /\ UNCHANGED othersStore

Init ==
    /\ InitStore /\ InitHist /\ InitReaders /\ InitProxyIdle /\ InitPipeline /\ InitScheduler
    /\ InitUnits

Next == StoreCall

Spec == Init /\ [][Next]_vars

(***************************************************************************)
(* BlockStore.ReceiveBlocks statement by statement, with a reader task     *)
(* that calls List() and Get() at any moment.  List and Get take no lock.  *)
(***************************************************************************)
\* lines 99-107: collect the source ids, lock modifyMtx
RBBegin(newBlocks) ==
    /\ rbPc = "idle"
    /\ ~panicked
    /\ ~modifyMtx
    /\ modifyMtx' = TRUE
    /\ rbPc' = "purge"
    /\ rbNew' = newBlocks
    /\ rbIdx' = 1
    /\ rbKeep' = <<>>
    /\ rbBlocks' = blocks
    /\ rbIndex' = index
    /\ UNCHANGED othersReaders
    /\ UNCHANGED <<storeVars, histVars, seen>>

\* lines 111-118: one iteration of the purge loop
RBPurgeStep ==
    /\ rbPc = "purge"
    /\ rbIdx <= Len(blocks)
    /\ LET block == blocks[rbIdx]
       IN  IF block.origin = NilOrigin
           THEN \* block.Origin.Id() panics; the deferred Unlock runs
                /\ panicked' = TRUE
                /\ modifyMtx' = FALSE
                /\ rbPc' = "idle"
                /\ UNCHANGED <<blocks, index, rbIdx, rbKeep>>
           ELSE /\ IF block.origin \in SourceIdSetOf(rbNew)
                   THEN /\ index' = MapDelete(index, {Id(block)})
                        /\ UNCHANGED rbKeep
                   ELSE /\ rbKeep' = Append(rbKeep, block)
                        /\ UNCHANGED index
                /\ rbIdx' = rbIdx + 1
                /\ UNCHANGED <<blocks, panicked, modifyMtx, rbPc>>
    /\ UNCHANGED othersReaders
    /\ UNCHANGED <<histVars, rbNew, rbBlocks, rbIndex, seen>>

\* line 119: bs.blocks = blocksToKeep
RBAssign ==
    /\ rbPc = "purge"
    /\ rbIdx > Len(blocks)
    /\ blocks' = rbKeep
    /\ rbPc' = "append"
    /\ rbIdx' = 1
    /\ UNCHANGED othersReaders
    /\ UNCHANGED <<index, panicked, histVars, rbNew, rbKeep, modifyMtx, rbBlocks, rbIndex, seen>>

\* lines 122-125: one iteration of the append loop
RBAppendStep ==
    /\ rbPc = "append"
    /\ rbIdx <= Len(rbNew)
    /\ index' = MapPutAll(index, <<rbNew[rbIdx]>>)
    /\ blocks' = Append(blocks, rbNew[rbIdx])
    /\ rbIdx' = rbIdx + 1
    /\ UNCHANGED othersReaders
    /\ UNCHANGED <<panicked, histVars, rbPc, rbNew, rbKeep, modifyMtx, rbBlocks, rbIndex, seen>>

\* line 126: sort.Sort(ByTimeStamp(bs.blocks)), in place
RBSort ==
    /\ rbPc = "append"
    /\ rbIdx > Len(rbNew)
    /\ blocks' \in SortOutcomes(blocks)
    /\ rbPc' = "unlock"
    /\ UNCHANGED othersReaders
    /\ UNCHANGED <<index, panicked, histVars, rbNew, rbIdx, rbKeep, modifyMtx, rbBlocks, rbIndex, seen>>

\* line 107: the deferred bs.modifyMtx.Unlock()
RBReturn ==
    /\ rbPc = "unlock"
    /\ modifyMtx' = FALSE
    /\ rbPc' = "idle"
    /\ UNCHANGED othersReaders
    /\ UNCHANGED <<storeVars, histVars, rbNew, rbIdx, rbKeep, rbBlocks, rbIndex, seen>>

\* what the running call leaves behind: the sequences and the index
AfterBlocks == SortOutcomes(BlocksToKeep(rbBlocks, SourceIdSetOf(rbNew)) \o rbNew)
AfterIndex ==
    MapPutAll(MapDelete(rbIndex, PurgedIds(rbBlocks, Len(rbBlocks), SourceIdSetOf(rbNew))), rbNew)

\* the result of a map lookup
Lookup(m, blockId) == IF blockId \in DOMAIN m THEN <<TRUE, m[blockId]>> ELSE <<FALSE>>

\* a reader calls List(): it gets bs.blocks as it is at this moment
ReaderList ==
    /\ ~panicked
    /\ seen' = [op |-> "List",
                complete |-> rbPc = "idle" \/ List = rbBlocks \/ List \in AfterBlocks,
                sorted |-> IsSortedDesc(List)]
    /\ UNCHANGED othersReaders
    /\ UNCHANGED <<storeVars, histVars, rbPc, rbNew, rbIdx, rbKeep, modifyMtx, rbBlocks, rbIndex>>

\* a reader calls Get(blockId): it reads bs.index as it is at this moment
ReaderGet(blockId) ==
    /\ ~panicked
    /\ seen' = [op |-> "Get",
                complete |-> \/ rbPc = "idle"
                             \/ Lookup(index, blockId) = Lookup(rbIndex, blockId)
                             \/ Lookup(index, blockId) = Lookup(AfterIndex, blockId),
                sorted |-> TRUE]
    /\ UNCHANGED othersReaders
    /\ UNCHANGED <<storeVars, histVars, rbPc, rbNew, rbIdx, rbKeep, modifyMtx, rbBlocks, rbIndex>>

NextReaders ==
    \/ \E newBlocks \in SeqsUpTo(Block, MaxNewStep) : RBBegin(newBlocks)
    \/ RBPurgeStep
    \/ RBAssign
    \/ RBAppendStep
    \/ RBSort
    \/ RBReturn
    \/ ReaderList
    \/ \E b \in Block : ReaderGet(Id(b))

SpecReaders == Init /\ [][NextReaders]_vars

(***************************************************************************)
(* ProxyImage callers and downloadAndCache tasks, image.go lines 75-206.   *)
(* operationsMtx names the caller that holds it; a download task holds it  *)
(* within its one step DLRemove.                                           *)
(***************************************************************************)
\* image.go line 81-82, 98: a new downloadOperation and its task; upstream
\* (how the fetch ended) and touched (what the task did to the cache) are
\* history
NewOp(url) == [url |-> url, downstreamChans |-> <<>>, modifyMtx |-> FALSE,
               pc |-> "get", code |-> 0, data |-> NoData, sent |-> 0,
               upstream |-> "none", touched |-> "none"]

SetCaller(c, r) == callers' = [callers EXCEPT ![c] = r]
SetOp(o, r) == dlOps' = [dlOps EXCEPT ![o] = r]

\* lines 161-173: cache.Get and http.ReadResponse on the cached bytes
PICacheGet(c) ==
    LET me == callers[c]
        cachedData == cache[cacheKey(me.url)]
    IN  /\ me.pc = "start"
        /\ IF cachedData # NoEntry /\ Parses(cachedData)
           THEN SetCaller(c, [me EXCEPT !.pc = "respond", !.resp = cachedData,
                                        !.found = "parsed"])
           ELSE IF cachedData # NoEntry
           THEN SetCaller(c, [me EXCEPT !.pc = "delete", !.found = "unparsable"])
           ELSE SetCaller(c, [me EXCEPT !.pc = "fetch", !.found = "nothing"])
        /\ UNCHANGED <<cache, operations, operationsMtx, dlOps, upstreamGets, transforms, cache0>>
        /\ UNCHANGED othersProxy

\* a ProxyImage that leaves the entry it could not parse in the cache
KeepUnparsable(c, key) == c

\* line 170: ipw.cache.Delete(cacheKey) of an entry that did not parse
DropUnparsable(c, key) == [c EXCEPT ![key] = NoEntry]

\* lines 165-172: the cached bytes did not parse, the entry is removed
PICacheDelete(c) ==
    LET me == callers[c]
    IN  /\ me.pc = "delete"
        /\ cache' = DropUnparsable(cache, cacheKey(me.url))
        /\ SetCaller(c, [me EXCEPT !.pc = "fetch"])
        /\ UNCHANGED <<operations, operationsMtx, dlOps, upstreamGets, transforms, cache0>>
        /\ UNCHANGED othersProxy

\* a fetch path that leaves the header as it was initialised
XCacheUntouched == "HIT"

\* line 177: xCacheHeader = "MISS"
XCacheOnFetch == "MISS"

\* lines 76, 177: xCacheHeader = "MISS", fetchFromUpstream locks operationsMtx
FetchLock(c) ==
    LET me == callers[c]
    IN  /\ me.pc = "fetch"
        /\ operationsMtx = NoHolder
        /\ operationsMtx' = c
        /\ SetCaller(c, [me EXCEPT !.pc = "register", !.xcache = XCacheOnFetch])
        /\ UNCHANGED <<cache, operations, dlOps, upstreamGets, transforms, cache0>>
        /\ UNCHANGED othersProxy

\* a lookup that finds no operation
OperationNeverFound(ops, url) == FALSE

\* line 79: dlOp, found := ipw.operations[url]
OperationFound(ops, url) == ops[url] # NoOp

\* a fetchFromUpstream that returns with operationsMtx still locked
MtxKept(c) == c

\* line 77: the deferred ipw.operationsMtx.Unlock()
MtxReleased(c) == NoHolder

\* lines 79-94: look the operation up or create it, add the caller's channel
\* under the operation's lock, publish a new operation, start its download
\* task, unlock operationsMtx and return the channel
FetchRegister(c) ==
    LET me == callers[c]
        found == OperationFound(operations, me.url)
        o == IF found THEN operations[me.url] ELSE Len(dlOps) + 1
        ops1 == IF found THEN dlOps ELSE Append(dlOps, NewOp(me.url))
    IN  /\ me.pc = "register"
        /\ operationsMtx = c
        /\ ~ops1[o].modifyMtx
        /\ dlOps' = [ops1 EXCEPT ![o].downstreamChans = Append(@, c)]
        /\ operations' = [operations EXCEPT ![me.url] = o]
        /\ operationsMtx' = MtxReleased(c)
        /\ SetCaller(c, [me EXCEPT !.pc = "wait", !.op = o])
        /\ UNCHANGED <<cache, upstreamGets, transforms, cache0>>
        /\ UNCHANGED othersProxy

\* a failure branch that does not set downloadedData.err
ErrorDataUnset(o, err) == [err |-> "none", from |-> o, httpResponseData |-> NoEntry]

\* the download an upstream failure leaves: lines 129-136
ErrorData(o, err) == [err |-> err, from |-> o, httpResponseData |-> NoEntry]

\* lines 102-107: http.Get(url) and ioutil.ReadAll of the body
DLGet(o) ==
    LET op == dlOps[o]
    IN  /\ op.pc = "get"
        /\ upstreamGets' = upstreamGets + 1
        /\ \/ \E code \in StatusCodes :
                  SetOp(o, [op EXCEPT !.pc = "transform", !.code = code, !.upstream = "ok"])
           \/ \E err \in UpstreamErrors :
                  SetOp(o, [op EXCEPT !.pc = "remove", !.upstream = err,
                                         !.data = ErrorData(o, err)])
        /\ UNCHANGED <<cache, operations, operationsMtx, callers, transforms, cache0>>
        /\ UNCHANGED othersProxy

\* a task that caches whatever status upstream answered
CacheableAlways(code) == TRUE

\* the upstream status lets the transformed response be cached, line 124
Cacheable(code) == code < 400

\* what the task does to the cache: "delete" after a failed transform
\* (line 118), "set" after a transform of a cacheable response (lines
\* 124-126), else "none"
TouchOf(t, code) ==
    IF t = "fail" THEN "delete" ELSE IF Cacheable(code) THEN "set" ELSE "none"

\* a task that leaves the cache alone when the transform fails
CacheAfterKeepStale(c, key, touch, buf) ==
    IF touch = "set" THEN [c EXCEPT ![key] = buf] ELSE c

\* lines 113-127: ipw.cache.Delete(cacheKey) or ipw.cache.Set(cacheKey, buf)
CacheAfter(c, key, touch, buf) ==
    IF touch = "delete" THEN [c EXCEPT ![key] = NoEntry]
    ELSE IF touch = "set" THEN [c EXCEPT ![key] = buf]
    ELSE c

\* lines 108-128: frame the response, transform the image, then delete the
\* cache entry (transform failed) or set it (transformed, status below 400)
DLTransform(o) ==
    LET op == dlOps[o]
        key == cacheKey(op.url)
    IN  /\ op.pc = "transform"
        /\ transforms' = transforms + 1
        /\ \E t \in TransformOutcomes :
               LET body == IF t = "fail" THEN "original" ELSE "transformed"
                   buf == Framed(op.code, body)
                   touch == TouchOf(t, op.code)
               IN  /\ cache' = CacheAfter(cache, key, touch, buf)
                   /\ SetOp(o, [op EXCEPT !.pc = "remove", !.touched = touch,
                                          !.data = [err |-> "none", from |-> o,
                                                    httpResponseData |-> buf]])
        /\ UNCHANGED <<operations, operationsMtx, callers, upstreamGets, cache0>>
        /\ UNCHANGED othersProxy

\* a task that leaves its operation in the map
MapKept(ops, url) == ops

\* line 140: delete(ipw.operations, url)
MapWithout(ops, url) == [ops EXCEPT ![url] = NoOp]

\* lines 139-141: remove the download from the operations map
DLRemove(o) ==
    LET op == dlOps[o]
    IN  /\ op.pc = "remove"
        /\ operationsMtx = NoHolder
        /\ operations' = MapWithout(operations, op.url)
        /\ SetOp(o, [op EXCEPT !.pc = "lock"])
        /\ UNCHANGED <<cache, operationsMtx, callers, upstreamGets, transforms, cache0>>
        /\ UNCHANGED othersProxy

\* line 143: dlOp.modifyMtx.Lock()
DLLock(o) ==
    LET op == dlOps[o]
    IN  /\ op.pc = "lock"
        /\ ~op.modifyMtx
        /\ SetOp(o, [op EXCEPT !.pc = "send", !.modifyMtx = TRUE])
        /\ UNCHANGED <<cache, operations, operationsMtx, callers, upstreamGets, transforms, cache0>>
        /\ UNCHANGED othersProxy

\* a download task that sends each listener a download of its own
BroadcastFresh(op) == NoData

\* what the download task sends on every channel, line 147
Broadcast(op) == op.data

\* lines 145-147 and 179: the next channel's listener receives the download;
\* the channels are unbuffered, the send waits for the receiver
DLSend(o) ==
    LET op == dlOps[o]
        i == op.sent + 1
    IN  /\ op.pc = "send"
        /\ i <= Len(op.downstreamChans)
        /\ LET c == op.downstreamChans[i]
               me == callers[c]
           IN  /\ me.pc = "wait"
               /\ SetCaller(c, [me EXCEPT !.pc = "received",
                                          !.received = Append(@, Broadcast(op))])
        /\ SetOp(o, [op EXCEPT !.sent = i])
        /\ UNCHANGED <<cache, operations, operationsMtx, upstreamGets, transforms, cache0>>
        /\ UNCHANGED othersProxy

\* line 144: the deferred dlOp.modifyMtx.Unlock() once every channel is served
DLDone(o) ==
    LET op == dlOps[o]
    IN  /\ op.pc = "send"
        /\ op.sent = Len(op.downstreamChans)
        /\ SetOp(o, [op EXCEPT !.pc = "done", !.modifyMtx = FALSE])
        /\ UNCHANGED <<cache, operations, operationsMtx, callers, upstreamGets, transforms, cache0>>
        /\ UNCHANGED othersProxy

\* lines 180-186: return the download's error, or parse its response;
\* server.go lines 157-160 answer an error with status 500
PIReceived(c) ==
    LET me == callers[c]
        downloadedData == me.received[Len(me.received)]
    IN  /\ me.pc = "received"
        /\ IF downloadedData.err # "none"
           THEN SetCaller(c, [me EXCEPT !.pc = "done",
                                        !.out = [NoOutput EXCEPT !.err = downloadedData.err,
                                                                 !.from = downloadedData.from,
                                                                 !.code = 500]])
           ELSE IF ~Parses(downloadedData.httpResponseData)
           THEN SetCaller(c, [me EXCEPT !.pc = "done",
                                        !.out = [NoOutput EXCEPT !.err = "parse", !.code = 500]])
           ELSE SetCaller(c, [me EXCEPT !.pc = "respond", !.resp = downloadedData.httpResponseData])
        /\ UNCHANGED <<cache, operations, operationsMtx, dlOps, upstreamGets, transforms, cache0>>
        /\ UNCHANGED othersProxy

\* lines 190-205: write the X-Cache header, the status and the body
PIRespond(c) ==
    LET me == callers[c]
    IN  /\ me.pc = "respond"
        /\ SetCaller(c, [me EXCEPT !.pc = "done",
                                   !.out = [NoOutput EXCEPT !.xcache = me.xcache,
                                                            !.code = me.resp.code,
                                                            !.body = me.resp.body]])
        /\ UNCHANGED <<cache, operations, operationsMtx, dlOps, upstreamGets, transforms, cache0>>
        /\ UNCHANGED othersProxy

CallerStep(c) ==
    \/ PICacheGet(c)
    \/ PICacheDelete(c)
    \/ FetchLock(c)
    \/ FetchRegister(c)
    \/ PIReceived(c)
    \/ PIRespond(c)

\* the steps of a download task after its upstream fetch
DownloadStep(o) ==
    \/ DLTransform(o)
    \/ DLRemove(o)
    \/ DLLock(o)
    \/ DLSend(o)
    \/ DLDone(o)

NextProxy ==
    \/ \E c \in Callers : CallerStep(c)
    \/ \E o \in 1..Len(dlOps) : DLGet(o)
    \/ \E o \in 1..Len(dlOps) : DownloadStep(o)

InitSpecProxy ==
    /\ InitStore /\ InitHist /\ InitReaders /\ InitProxy /\ InitPipeline /\ InitScheduler
    /\ InitUnits

SpecProxy == InitSpecProxy /\ [][NextProxy]_vars

\* the download task of operation o, once created, past its upstream fetch
DownloadStepOf(o) == o <= Len(dlOps) /\ DownloadStep(o)

\* The Go scheduler runs every task that can take a step; that http.Get
\* returns is not assumed.
SpecProxyFair ==
    /\ SpecProxy
    /\ \A c \in Callers : WF_vars(CallerStep(c))
    /\ \A o \in Callers : WF_vars(DownloadStepOf(o))

(***************************************************************************)
(* The pipeline cycle: Server.PullSources (server.go lines 123-136),       *)
(* Sources.SendBlocksTo (source.go lines 23-49) and                        *)
(* ImageAnalyzer.ReceiveBlocks (image.go lines 270-304).  The blocks of    *)
(* this specification carry no image link, so the analyzer's workers have  *)
(* nothing to probe.                                                       *)
(***************************************************************************)
\* server.go line 124, s.cache.DeleteSome(): some of the keys are erased
DeleteSomeOutcomes(c) ==
    {[k \in DOMAIN c |-> IF k \in erased THEN NoEntry ELSE c[k]] : erased \in SUBSET DOMAIN c}

\* server.go lines 124-129 and source.go lines 24-38: evict, create the
\* analyzer, start one pullSource task per source
PullBegin ==
    /\ cache' \in DeleteSomeOutcomes(cache)
    /\ plPc' = "collect"
    /\ srcPc' = [s \in SourceSet |-> IF s \in Range(sources) THEN "fetch" ELSE "done"]
    /\ srcOutcome' = [s \in SourceSet |-> NoOutcome]
    /\ srcRead' = [s \in SourceSet |-> <<>>]
    /\ outBlocks' = <<>>
    /\ sendq' = <<>>
    /\ nReceived' = 0
    /\ sbErr' = NoError
    /\ completion' = <<>>
    /\ delivered' = [s \in SourceSet |-> <<>>]
    /\ cycleBefore' = blocks

PullStart ==
    /\ plPc = "idle"
    /\ ~panicked
    /\ PullBegin
    /\ UNCHANGED <<storeVars, histVars>>
    /\ UNCHANGED othersPipeline

\* source.go lines 27-30: GetBlocks of the source fails or returns a list
SourceFetch(s) ==
    /\ srcPc[s] = "fetch"
    /\ \/ /\ srcOutcome' = [srcOutcome EXCEPT ![s] = Failed]
          /\ srcPc' = [srcPc EXCEPT ![s] = "send"]
       \/ \E list \in FreshLists(s) :
              /\ srcOutcome' = [srcOutcome EXCEPT ![s] = Fetched(list)]
              /\ srcPc' = [srcPc EXCEPT ![s] = "feed"]
    /\ UNCHANGED <<plPc, srcRead, outBlocks, sendq, nReceived, sbErr, completion, delivered,
                   cycleBefore, cache, storeVars, histVars>>
    /\ UNCHANGED othersPipeline

\* source.go line 31 and image.go lines 271-301: receiver.ReceiveBlocks is
\* called; the analyzer starts its workers, hands them the blocks and
\* closes the channel
AnalyzerFeed(s) ==
    /\ srcPc[s] = "feed"
    /\ delivered' = [delivered EXCEPT ![s] = Append(@, srcOutcome[s].blocks)]
    /\ srcPc' = [srcPc EXCEPT ![s] = "read"]
    /\ UNCHANGED <<plPc, srcOutcome, srcRead, outBlocks, sendq, nReceived, sbErr, completion,
                   cycleBefore, cache, storeVars, histVars>>
    /\ UNCHANGED othersPipeline

\* image.go line 303, append(ia.outBlocks, blocks...): ia.outBlocks is read.
\* No lock guards ia.outBlocks against the other pullSource tasks.
AnalyzerAppendRead(s) ==
    /\ srcPc[s] = "read"
    /\ srcRead' = [srcRead EXCEPT ![s] = outBlocks]
    /\ srcPc' = [srcPc EXCEPT ![s] = "write"]
    /\ UNCHANGED <<plPc, srcOutcome, outBlocks, sendq, nReceived, sbErr, completion, delivered,
                   cycleBefore, cache, storeVars, histVars>>
    /\ UNCHANGED othersPipeline

\* image.go line 303: ia.outBlocks is assigned the appended slice
AnalyzerAppendWrite(s) ==
    /\ srcPc[s] = "write"
    /\ outBlocks' = srcRead[s] \o srcOutcome[s].blocks
    /\ srcPc' = [srcPc EXCEPT ![s] = "send"]
    /\ UNCHANGED <<plPc, srcOutcome, srcRead, sendq, nReceived, sbErr, completion, delivered,
                   cycleBefore, cache, storeVars, histVars>>
    /\ UNCHANGED othersPipeline

\* source.go line 33: the task reaches sync_chan <- pull_err and waits for
\* the receiver; senders are served in the order they arrived
SourceSend(s) ==
    /\ srcPc[s] = "send"
    /\ sendq' = Append(sendq, s)
    /\ srcPc' = [srcPc EXCEPT ![s] = "blocked"]
    /\ UNCHANGED <<plPc, srcOutcome, srcRead, outBlocks, nReceived, sbErr, completion, delivered,
                   cycleBefore, cache, storeVars, histVars>>
    /\ UNCHANGED othersPipeline

\* an err that is overwritten by every received error
KeepLast(err, source_err) == IF source_err # NoError THEN source_err ELSE err

\* source.go lines 44-46: if err == nil { err = source_err }
KeepFirst(err, source_err) == IF err = NoError THEN source_err ELSE err

\* a receive loop that stops at the first value received
FirstReceived(n, srcs) == n >= (IF Len(srcs) = 0 THEN 0 ELSE 1)

\* source.go line 41, for _ = range *sources: the loop has run once for
\* every source
AllReceived(n, srcs) == n = Len(srcs)

\* source.go lines 41-47: one iteration of the receive loop
SendBlocksToReceive ==
    /\ plPc = "collect"
    /\ ~AllReceived(nReceived, sources)
    /\ sendq # <<>>
    /\ LET s == Head(sendq)
           source_err == IF srcOutcome[s].state = "error" THEN ErrorOf(s) ELSE NoError
       IN  /\ sbErr' = KeepFirst(sbErr, source_err)
           /\ srcPc' = [srcPc EXCEPT ![s] = "done"]
           /\ completion' = Append(completion, s)
    /\ sendq' = Tail(sendq)
    /\ nReceived' = nReceived + 1
    /\ UNCHANGED <<plPc, srcOutcome, srcRead, outBlocks, delivered, cycleBefore, cache,
                   storeVars, histVars>>
    /\ UNCHANGED othersPipeline

\* source.go line 48: return err, once every source has been received
SendBlocksToReturn ==
    /\ plPc = "collect"
    /\ AllReceived(nReceived, sources)
    /\ plPc' = "store"
    /\ UNCHANGED <<srcPc, srcOutcome, srcRead, outBlocks, sendq, nReceived, sbErr, completion,
                   delivered, cycleBefore, cache, storeVars, histVars>>
    /\ UNCHANGED othersPipeline

\* server.go lines 130-135: ia.GetBlocks() and s.blockStore.ReceiveBlocks
PullStore ==
    /\ plPc = "store"
    /\ ReceiveBlocks(outBlocks)
    /\ plPc' = "idle"
    /\ UNCHANGED <<srcPc, srcOutcome, srcRead, outBlocks, sendq, nReceived, sbErr, completion,
                   delivered, cycleBefore, cache>>
    /\ UNCHANGED othersPipeline

SourceStep(s) ==
    \/ SourceFetch(s)
    \/ AnalyzerFeed(s)
    \/ AnalyzerAppendRead(s)
    \/ AnalyzerAppendWrite(s)
    \/ SourceSend(s)

NextPipeline ==
    \/ PullStart
    \/ \E s \in SourceSet : SourceStep(s)
    \/ SendBlocksToReceive
    \/ SendBlocksToReturn
    \/ PullStore

\* the server is configured with the three sources or with none
InitSpecPipeline ==
    /\ InitStore /\ InitHist /\ InitReaders /\ InitProxyIdle /\ InitScheduler
    /\ InitUnits
    /\ \E srcs \in {<<>>, Sources} :
           /\ sources = srcs
           /\ plPc = "idle"
           /\ srcPc = [s \in SourceSet |-> "done"]
           /\ srcOutcome = [s \in SourceSet |-> NoOutcome]
           /\ srcRead = [s \in SourceSet |-> <<>>]
           /\ outBlocks = <<>>
           /\ sendq = <<>>
           /\ nReceived = 0
           /\ sbErr = NoError
           /\ completion = <<>>
           /\ delivered = [s \in SourceSet |-> <<>>]
           /\ cycleBefore = <<>>

SpecPipeline == InitSpecPipeline /\ [][NextPipeline]_vars

(***************************************************************************)
(* The update task of NewServer, server.go lines 75-102, with the callers  *)
(* of StartUpdating and StopUpdating (lines 115-121).  The task runs       *)
(* PullSources to its end before it goes on, so a cycle is one step here:  *)
(* what the sources return and which of the concurrent appends to          *)
(* ia.outBlocks survive are chosen in that step.                           *)
(***************************************************************************)
\* what one source's GetBlocks can return
SourceOutcomes(s) == {Failed} \cup {Fetched(list) : list \in FreshLists(s)}

\* what the GetBlocks calls of one cycle return
CycleOutcomes ==
    {f \in [Range(sources) -> UNION {SourceOutcomes(s) : s \in Range(sources)}] :
        \A s \in Range(sources) : f[s] \in SourceOutcomes(s)}

RECURSIVE ConcatOf(_, _)
ConcatOf(outcome, chain) ==
    IF chain = <<>> THEN <<>>
    ELSE outcome[Head(chain)].blocks \o ConcatOf(outcome, Tail(chain))

\* image.go line 303 run by the pullSource tasks without a lock: the append
\* that writes last wins, on top of what it read, which is empty or what
\* another append wrote before; so ia.outBlocks ends as the lists of some
\* of the successful sources in some order, those of all of them when no
\* append was lost
AnalyzerOutcomes(outcome) ==
    LET ok == {s \in DOMAIN outcome : outcome[s].state = "ok"}
    IN  IF ok = {} THEN {<<>>}
        ELSE {ConcatOf(outcome, chain) :
                 chain \in UNION {OrdersOf(T) : T \in (SUBSET ok) \ {{}}}}

\* a loop that pulls whether or not updating is switched on
ShouldPullAlways(doUpd) == TRUE

\* server.go line 79: if doUpdating
ShouldPull(doUpd) == doUpd

\* a task that switches to the configured interval after every cycle
NextTimeoutAlways(timeout, size, interval) == interval

\* server.go lines 86-88
NextTimeout(timeout, size, interval) ==
    IF timeout > 0 /\ size > 0 THEN interval ELSE timeout

othersScheduler == <<rbVars, pipeVars, unitVars, operations, operationsMtx, dlOps, callers,
                     upstreamGets, transforms, cache0>>

\* server.go lines 79-89: PullSources and the choice of the next timeout
SchedPull ==
    /\ schedPc = "top"
    /\ ShouldPull(doUpdating)
    /\ \E outcome \in CycleOutcomes :
           /\ \E out \in AnalyzerOutcomes(outcome) : ReceiveBlocks(out)
           /\ cycleFailed' = (\A s \in Range(sources) : outcome[s].state = "error")
    /\ cache' \in DeleteSomeOutcomes(cache)
    /\ updateTimeout' = NextTimeout(updateTimeout, Len(blocks'), updateInterval)
    /\ pulled' = TRUE
    /\ schedPc' = "wait"
    /\ UNCHANGED <<doUpdating, updateInterval, lastWake, lastSignal>>
    /\ UNCHANGED othersScheduler

\* server.go line 79: doUpdating is false, the task goes on to its wait
SchedSkip ==
    /\ schedPc = "top"
    /\ ~ShouldPull(doUpdating)
    /\ schedPc' = "wait"
    /\ UNCHANGED <<doUpdating, updateTimeout, updateInterval, lastWake, lastSignal, pulled,
                   cycleFailed>>
    /\ UNCHANGED <<storeVars, histVars, cache>>
    /\ UNCHANGED othersScheduler

\* server.go lines 93-94 and 99 with lines 115-121: StartUpdating (v true)
\* or StopUpdating (v false) hands its value to the waiting task
SchedSignal(v) ==
    /\ schedPc = "wait"
    /\ doUpdating' = v
    /\ lastWake' = IF v THEN "start" ELSE "stop"
    /\ lastSignal' = lastWake'
    /\ pulled' = FALSE
    /\ schedPc' = "top"
    /\ UNCHANGED <<updateTimeout, updateInterval, cycleFailed>>
    /\ UNCHANGED <<storeVars, histVars, cache>>
    /\ UNCHANGED othersScheduler

\* a wait that never selects on the timer
TimerNeverArmed(timeout) == FALSE

\* server.go line 91: if updateTimeout > 0, the select includes time.After
TimerArmed(timeout) == timeout > 0

\* server.go lines 95-96: time.After(updateTimeout seconds) fires first
SchedTimer ==
    /\ schedPc = "wait"
    /\ TimerArmed(updateTimeout)
    /\ lastWake' = "timer"
    /\ pulled' = FALSE
    /\ schedPc' = "top"
    /\ UNCHANGED <<doUpdating, updateTimeout, updateInterval, lastSignal, cycleFailed>>
    /\ UNCHANGED <<storeVars, histVars, cache>>
    /\ UNCHANGED othersScheduler

NextScheduler ==
    \/ SchedPull
    \/ SchedSkip
    \/ \E v \in BOOLEAN : SchedSignal(v)
    \/ SchedTimer

InitSpecScheduler ==
    /\ InitStore /\ InitHist /\ InitReaders /\ InitProxyIdle /\ InitPipeline
    /\ InitUnits
    /\ \E interval \in Intervals : InitSchedulerWith(interval)

SpecScheduler == InitSpecScheduler /\ [][NextScheduler]_vars

\* The task is scheduled whenever it can go on and time.After fires once
\* its duration has passed; that a control signal arrives is not assumed.
SpecSchedulerFair ==
    /\ SpecScheduler
    /\ WF_vars(SchedPull)
    /\ WF_vars(SchedSkip)
    /\ WF_vars(SchedTimer)

(***************************************************************************)
(* Single calls of functions of the program.  A step of SpecCalls makes    *)
(* one call, from any arguments, and records it with what it gave.         *)
(***************************************************************************)
othersCalls == <<storeVars, histVars, rbVars, proxyVars, pipeVars, schedVars, forgetVars,
                analyzerVars, cycleVars, poolVars>>

\* http.StatusNotModified, image.go line 196
StatusNotModified == 304

\* the value of a time header: 0 when the header is absent, -1 when it is
\* no RFC1123 time, else the time
HeaderTimes == {0, -1, 1, 2}
\* the value of an entity tag header, "" when the header is absent
Etags == {"", "e1", "e2"}

\* the request headers check304 reads
Requests == [ifNoneMatch : Etags, ifModifiedSince : HeaderTimes]

\* a stored response as http.ReadResponse returns it
StoredResponses ==
    [code : StatusCodes, etag : Etags, lastModified : HeaderTimes, expires : {0, 2},
     contentLength : {"n"}, contentType : {"image/png"}, body : {"bytes"}]

\* time.Parse(time.RFC1123, v) returns no error
ParsesAsTime(v) == v > 0

\* a check that never answers not modified
check304Never(req, resp) == FALSE

\* image.go lines 235-257
check304(req, resp) ==
    LET etag == resp.etag
    IN  IF etag # "" /\ etag = req.ifNoneMatch THEN TRUE
        ELSE IF ~ParsesAsTime(resp.lastModified) THEN FALSE
        ELSE IF ~ParsesAsTime(req.ifModifiedSince) THEN FALSE
        ELSE resp.lastModified < req.ifModifiedSince

\* ProxyImage lines 189-205: what is written to the ResponseWriter; a header
\* that copyHeader did not copy is absent ("" or 0), no body is ""
WriteResponse(req, resp, xCacheHeader) ==
    LET validation == [lastModified |-> resp.lastModified, expires |-> resp.expires,
                       etag |-> resp.etag, xcache |-> xCacheHeader]
    IN  IF check304(req, resp)
        THEN [fn |-> "ProxyImage", status |-> StatusNotModified, validation |-> validation,
              contentLength |-> "", contentType |-> "", body |-> ""]
        ELSE [fn |-> "ProxyImage", status |-> resp.code, validation |-> validation,
              contentLength |-> resp.contentLength, contentType |-> resp.contentType,
              body |-> resp.body]

CallWriteResponse ==
    /\ call = NoCall
    /\ \E req \in Requests, resp \in StoredResponses, xCacheHeader \in {"HIT", "MISS"} :
           /\ call' = [fn |-> "ProxyImage", req |-> req, resp |-> resp,
                       xCacheHeader |-> xCacheHeader]
           /\ result' = WriteResponse(req, resp, xCacheHeader)
    /\ UNCHANGED othersCalls

\* longest block list a nested source returns to a FilteredSource
MaxNested == 3
\* longest filter list of a FilteredSource
MaxFilters == 2

\* the blocks of a nested source
NestedBlocks == [origin : {"A"}, title : Titles, link : Links, content : Contents, ts : Times]

\* source.go lines 90-115: a limit filter made from the parameter limit, a
\* title filter made from a regular expression that matches the titles
\* equal to pattern
LimitFilter(limit) == [kind |-> "limit", limit |-> limit, pattern |-> ""]
TitleFilter(pattern) == [kind |-> "title", limit |-> 0, pattern |-> pattern]
FilterFuncs == {LimitFilter(n) : n \in {0, 1, 2}} \cup {TitleFilter("t1")}

\* the FilterFunc called with a position, counted from 0, and a block
Keeps(filter, idx, block) ==
    IF filter.kind = "limit" THEN ~(idx >= filter.limit)
    ELSE block.title = filter.pattern

\* source.go lines 78-85: the blocks of list the filter keeps, in their order
RECURSIVE FilterFrom(_, _, _)
FilterFrom(filter, list, idx) ==
    IF idx >= Len(list) THEN <<>>
    ELSE (IF Keeps(filter, idx, list[idx + 1]) THEN <<list[idx + 1]>> ELSE <<>>)
             \o FilterFrom(filter, list, idx + 1)

\* source.go lines 77-86: the filters applied one after the other
RECURSIVE ApplyFilters(_, _)
ApplyFilters(filters, list) ==
    IF filters = <<>> THEN list
    ELSE ApplyFilters(Tail(filters), FilterFrom(Head(filters), list, 0))

\* a GetBlocks that filters first and sorts what is left
FilterThenSort(filters, list) == SortOutcomes(ApplyFilters(filters, list))

\* source.go lines 73-86: sort.Sort(ByTimeStamp(blocks)), then the filters
SortThenFilter(filters, list) ==
    {ApplyFilters(filters, sorted) : sorted \in SortOutcomes(list)}

\* FilteredSource.GetBlocks, source.go lines 68-87: what it can return for
\* what the nested source returned
FilteredGetBlocks(nested, filters) ==
    IF nested.state = "error"
    THEN {[fn |-> "GetBlocks", blocks |-> nested.blocks, err |-> "error"]}
    ELSE {[fn |-> "GetBlocks", blocks |-> list, err |-> NoError] :
             list \in SortThenFilter(filters, nested.blocks)}

CallGetBlocks ==
    /\ call = NoCall
    /\ \E nested \in {Failed} \cup {Fetched(list) : list \in SeqsUpTo(NestedBlocks, MaxNested)},
          filters \in SeqsUpTo(FilterFuncs, MaxFilters) :
           /\ call' = [fn |-> "GetBlocks", nested |-> nested, filters |-> filters]
           /\ result' \in FilteredGetBlocks(nested, filters)
    /\ UNCHANGED othersCalls

\* blocks whose fields may hold the character "|"
IdFields == {"a", "b", "a|b", "b|a", ""}
IdBlocks == [origin : {"A", NilOrigin}, title : IdFields, link : IdFields, content : {"c", ""}, ts : {1}]

\* Block.Id of two blocks, block.go lines 36-42
CallId ==
    /\ call = NoCall
    /\ \E b1 \in IdBlocks, b2 \in IdBlocks :
           /\ call' = [fn |-> "Id", b1 |-> b1, b2 |-> b2]
           /\ result' = [fn |-> "Id", id1 |-> Id(b1), id2 |-> Id(b2)]
    /\ UNCHANGED othersCalls

\* sourceconfig.Filters, a map from filter name to parameter: at most one
\* filter of a name, and a FilteredSource only for a map that is not empty
\* (source.go line 148)
FilterConfigs ==
    {config \in (SUBSET FilterFuncs) \ {{}} :
        \A f, g \in config : f.kind = g.kind => f = g}

\* source.go lines 152-169: the filters are added in the order in which
\* range walks the map, which Go leaves open
FilterOrders(config) ==
    {o \in [1..Cardinality(config) -> config] : Range(o) = config}

\* CreateSources for one source with filters, source.go lines 148-171, and
\* GetBlocks on the FilteredSource it made: the lists GetBlocks can return,
\* for every order the filters can have been added in
CallCreateSources ==
    /\ call = NoCall
    /\ \E config \in FilterConfigs, list \in SeqsUpTo(NestedBlocks, MaxNested) :
           /\ call' = [fn |-> "CreateSources", config |-> config, nested |-> Fetched(list)]
           /\ result' = [fn |-> "CreateSources",
                         lists |-> [o \in FilterOrders(config) |-> SortThenFilter(o, list)]]
    /\ UNCHANGED othersCalls

NextCalls ==
    \/ CallWriteResponse
    \/ CallGetBlocks
    \/ CallId
    \/ CallCreateSources

SpecCalls == Init /\ [][NextCalls]_vars

(***************************************************************************)
(* The forgetting cache, cache.go.                                         *)
(***************************************************************************)
othersForget == <<storeVars, histVars, rbVars, proxyVars, pipeVars, schedVars, callVars,
                 analyzerVars, cycleVars, poolVars>>

\* most keys in the cache at once
MaxKeys == 2

\* the values of forgetPercent; the image proxy uses 10
Percents == {10, 25, 100, 0}
IntSizes == {32, 64}

\* Go's a % m for m > 0: the remainder has the sign of a (-a is taken as
\* -(a + 1) + 1, which is in range for the smallest int as well)
GoRem(a, m) == IF a >= 0 THEN a % m ELSE 0 - ((((0 - (a + 1)) % m) + 1) % m)

\* 2^31 - 1, the largest value of the lower 31 bits
MaxLow == 2147483647

\* int(crc32.ChecksumIEEE(..)) % modValue, cache.go lines 57-58: the uint32
\* keeps its value in an int of 64 bits and is low - 2^31 in an int of 32
\* bits when its highest bit is set
HashRem64(hash, modValue) ==
    IF hash.top THEN ((hash.low % modValue) + ((MaxLow % modValue) + 1)) % modValue
    ELSE hash.low % modValue

HashRem(hash, bits, modValue) ==
    IF hash.top /\ bits = 32 THEN GoRem((hash.low - MaxLow) - 1, modValue)
    ELSE HashRem64(hash, modValue)

\* cache.go lines 51-54
ModValue(percent) == IF percent > 0 /\ percent <= 100 THEN 100 \div percent ELSE 1

\* cache.go lines 56-61: the keys one ForgetSome call erases
Forgotten == {k \in fcKeys : HashRem(k, intSize, ModValue(forgetPercent)) = forgetCounter}

\* ForgettingCache.ForgetSome, cache.go lines 50-67
ForgetSome ==
    /\ fcCalls < ModValue(forgetPercent)
    /\ fcKeys' = fcKeys \ Forgotten
    /\ forgetCounter' = IF forgetCounter + 1 = ModValue(forgetPercent) THEN 0
                        ELSE forgetCounter + 1
    /\ fcErased' = [k \in Hashes |-> IF k \in Forgotten THEN fcErased[k] + 1 ELSE fcErased[k]]
    /\ fcCalls' = fcCalls + 1
    /\ UNCHANGED <<forgetPercent, intSize, fcStart>>
    /\ UNCHANGED othersForget

\* ForgettingCache.Set, cache.go lines 36-39: a write
CacheSet ==
    /\ \E k \in Hashes :
           /\ Cardinality(fcKeys \cup {k}) <= MaxKeys
           /\ fcKeys' = fcKeys \cup {k}
           /\ fcStart' = fcKeys \cup {k}
    /\ fcErased' = [k \in Hashes |-> 0]
    /\ fcCalls' = 0
    /\ UNCHANGED <<forgetPercent, forgetCounter, intSize>>
    /\ UNCHANGED othersForget

NextForget ==
    \/ ForgetSome
    \/ CacheSet

InitSpecForget ==
    /\ InitStore /\ InitHist /\ InitReaders /\ InitProxyIdle /\ InitPipeline /\ InitScheduler
    /\ InitCalls /\ InitAnalyzer /\ InitCycles /\ InitPool
    /\ \E percent \in Percents, bits \in IntSizes : InitForgetWith(percent, bits)

SpecForget == InitSpecForget /\ [][NextForget]_vars

(***************************************************************************)
(* The image analyzer between a source and the store, image.go lines       *)
(* 270-304 and server.go lines 123-136.                                    *)
(***************************************************************************)
othersAnalyzer == <<storeVars, histVars, rbVars, proxyVars, pipeVars, schedVars, callVars,
                   forgetVars, cycleVars, poolVars>>

\* longest block list of the source
MaxImages == 2

\* a block's image: "none" (ImageLink is ""), "broken" (GetImageConfig
\* fails) or "image"; ImageWidth is 0 until a worker sets it
ImageKinds == {"none", "broken", "image"}
ImageBlock(kind) == [kind |-> kind, width |-> 0]

\* pullSource, source.go line 27: the source's GetBlocks returns its list
\* and ReceiveBlocks starts with it
AnalyzerGet ==
    /\ iaPc = "get"
    /\ \E kinds \in SeqsUpTo(ImageKinds, MaxImages) :
           iaBlocks' = [i \in 1..Len(kinds) |-> ImageBlock(kinds[i])]
    /\ iaPc' = "feed"
    /\ UNCHANGED <<iaFed, iaWorkers, iaOut, iaStored, iaBusy>>
    /\ UNCHANGED othersAnalyzer

\* image.go lines 298-300 and 274: in_chan <- block meets a worker's receive
AnalyzerSend(w) ==
    /\ iaPc = "feed"
    /\ iaFed < Len(iaBlocks)
    /\ iaWorkers[w].pc = "recv"
    /\ iaFed' = iaFed + 1
    /\ iaWorkers' = [iaWorkers EXCEPT ![w] = [pc |-> "check", block |-> iaFed + 1]]
    /\ UNCHANGED <<iaBlocks, iaPc, iaOut, iaStored, iaBusy>>
    /\ UNCHANGED othersAnalyzer

\* image.go line 301: close(in_chan) after the last block was taken
AnalyzerClose ==
    /\ iaPc = "feed"
    /\ iaFed = Len(iaBlocks)
    /\ iaPc' = "append"
    /\ UNCHANGED <<iaBlocks, iaFed, iaWorkers, iaOut, iaStored, iaBusy>>
    /\ UNCHANGED othersAnalyzer

\* image.go line 303, the append, and the return: nothing waits for the
\* workers
AnalyzerAppend ==
    /\ iaPc = "append"
    /\ iaOut' = iaOut \o [i \in 1..Len(iaBlocks) |-> i]
    /\ iaPc' = "returned"
    /\ UNCHANGED <<iaBlocks, iaFed, iaWorkers, iaStored, iaBusy>>
    /\ UNCHANGED othersAnalyzer

\* image.go lines 275-280: the worker locks the block and drops it when it
\* has no image
WorkerCheck(w) ==
    /\ iaWorkers[w].pc = "check"
    /\ iaWorkers' = [iaWorkers EXCEPT ![w] =
                         IF iaBlocks[iaWorkers[w].block].kind = "none" THEN IdleWorker
                         ELSE [@ EXCEPT !.pc = "probe"]]
    /\ UNCHANGED <<iaBlocks, iaPc, iaFed, iaOut, iaStored, iaBusy>>
    /\ UNCHANGED othersAnalyzer

\* image.go lines 282-286: GetImageConfig has answered
WorkerProbe(w) ==
    /\ iaWorkers[w].pc = "probe"
    /\ iaWorkers' = [iaWorkers EXCEPT ![w] =
                         IF iaBlocks[iaWorkers[w].block].kind = "broken" THEN IdleWorker
                         ELSE [@ EXCEPT !.pc = "write"]]
    /\ UNCHANGED <<iaBlocks, iaPc, iaFed, iaOut, iaStored, iaBusy>>
    /\ UNCHANGED othersAnalyzer

\* image.go lines 288-289: the worker sets ImageWidth and ImageHeight
WorkerWrite(w) ==
    /\ iaWorkers[w].pc = "write"
    /\ iaBlocks' = [iaBlocks EXCEPT ![iaWorkers[w].block].width = 1]
    /\ iaWorkers' = [iaWorkers EXCEPT ![w] = IdleWorker]
    /\ UNCHANGED <<iaPc, iaFed, iaOut, iaStored, iaBusy>>
    /\ UNCHANGED othersAnalyzer

\* image.go line 274: the range loop of a worker ends on the closed channel
WorkerExit(w) ==
    /\ iaWorkers[w].pc = "recv"
    /\ iaPc \in {"append", "returned", "stored"}
    /\ iaWorkers' = [iaWorkers EXCEPT ![w] = [pc |-> "exit", block |-> 0]]
    /\ UNCHANGED <<iaBlocks, iaPc, iaFed, iaOut, iaStored, iaBusy>>
    /\ UNCHANGED othersAnalyzer

\* source.go lines 33 and 43-48, server.go lines 129-134: pullSource reports
\* on sync_chan, SendBlocksTo returns and PullSources hands ia.GetBlocks()
\* to Store.ReceiveBlocks
AnalyzerStore ==
    /\ iaPc = "returned"
    /\ iaStored' = [i \in 1..Len(iaOut) |-> iaBlocks[iaOut[i]]]
    /\ iaBusy' = {w \in Workers : iaWorkers[w].block # 0}
    /\ iaPc' = "stored"
    /\ UNCHANGED <<iaBlocks, iaFed, iaWorkers, iaOut>>
    /\ UNCHANGED othersAnalyzer

NextAnalyzer ==
    \/ AnalyzerGet
    \/ AnalyzerClose
    \/ AnalyzerAppend
    \/ AnalyzerStore
    \/ \E w \in Workers :
           \/ AnalyzerSend(w)
           \/ WorkerCheck(w)
           \/ WorkerProbe(w)
           \/ WorkerWrite(w)
           \/ WorkerExit(w)

SpecAnalyzer == Init /\ [][NextAnalyzer]_vars

(***************************************************************************)
(* The worker pools of one cycle: every pullSource task calls              *)
(* ImageAnalyzer.ReceiveBlocks on the one analyzer (source.go lines 26-38) *)
(* and every call starts workers of its own (image.go lines 293-296).      *)
(***************************************************************************)
othersPool == <<storeVars, histVars, rbVars, proxyVars, pipeVars, schedVars, callVars,
               forgetVars, analyzerVars, cycleVars>>

\* runtime.NumCPU() * 2, image.go line 294
PoolSize == NWorkers

\* source.go lines 27-31: GetBlocks fails, and the task is done, or returns
\* a list, and ReceiveBlocks begins
PoolFetch(s) ==
    /\ poolPc[s] = "fetch"
    /\ \/ poolPc' = [poolPc EXCEPT ![s] = "closed"] /\ UNCHANGED poolLen
       \/ \E n \in 0..MaxImages :
              /\ poolLen' = [poolLen EXCEPT ![s] = n]
              /\ poolPc' = [poolPc EXCEPT ![s] = "start"]
    /\ UNCHANGED <<poolFed, poolAlive>>
    /\ UNCHANGED othersPool

\* image.go lines 294-296: go analyzeImageworker(in_chan), once per pass of
\* the loop
PoolStartWorker(s) ==
    /\ poolPc[s] = "start"
    /\ poolAlive[s] < PoolSize
    /\ poolAlive' = [poolAlive EXCEPT ![s] = @ + 1]
    /\ UNCHANGED <<poolPc, poolLen, poolFed>>
    /\ UNCHANGED othersPool

\* image.go line 294: wid has reached runtime.NumCPU() * 2
PoolStarted(s) ==
    /\ poolPc[s] = "start"
    /\ poolAlive[s] = PoolSize
    /\ poolPc' = [poolPc EXCEPT ![s] = "feed"]
    /\ UNCHANGED <<poolLen, poolFed, poolAlive>>
    /\ UNCHANGED othersPool

\* image.go lines 298-300: a worker of the call takes the next block
PoolFeed(s) ==
    /\ poolPc[s] = "feed"
    /\ poolFed[s] < poolLen[s]
    /\ poolFed' = [poolFed EXCEPT ![s] = @ + 1]
    /\ UNCHANGED <<poolPc, poolLen, poolAlive>>
    /\ UNCHANGED othersPool

\* image.go lines 301-304: close(in_chan), the append, the return
PoolClose(s) ==
    /\ poolPc[s] = "feed"
    /\ poolFed[s] = poolLen[s]
    /\ poolPc' = [poolPc EXCEPT ![s] = "closed"]
    /\ UNCHANGED <<poolLen, poolFed, poolAlive>>
    /\ UNCHANGED othersPool

\* image.go line 274: a worker's range over in_chan ends once the channel
\* is closed and the worker is through with its block
PoolWorkerExit(s) ==
    /\ poolPc[s] = "closed"
    /\ poolAlive[s] > 0
    /\ poolAlive' = [poolAlive EXCEPT ![s] = @ - 1]
    /\ UNCHANGED <<poolPc, poolLen, poolFed>>
    /\ UNCHANGED othersPool

NextPool ==
    \E s \in SourceSet :
        \/ PoolFetch(s)
        \/ PoolStartWorker(s)
        \/ PoolStarted(s)
        \/ PoolFeed(s)
        \/ PoolClose(s)
        \/ PoolWorkerExit(s)

SpecPool == Init /\ [][NextPool]_vars

(***************************************************************************)
(* The update task of server.go lines 75-102 with PullSources statement by *)
(* statement (the actions of SpecPipeline between its begin and its end)   *)
(* and StartUpdating and StopUpdating as calls that wait in their send.    *)
(***************************************************************************)
othersCycles == <<rbVars, callVars, forgetVars, analyzerVars, poolVars, operations,
                  operationsMtx, dlOps, callers, upstreamGets, transforms, cache0>>

\* the sources of the server in this specification
CycleSources == <<Sources[1], Sources[2]>>

\* a task that starts PullSources and goes on without waiting for it
PullDetached == "wait"

\* server.go line 82: the task is in its call of PullSources until it returns
PullCalled == "pulling"

\* server.go lines 79-82 and 124-129: doUpdating is true, PullSources begins
CycleBegin ==
    /\ schedPc = "top"
    /\ ShouldPull(doUpdating)
    /\ PullBegin
    /\ schedPc' = PullCalled
    /\ cycleTick' = ~cycleTick
    /\ UNCHANGED <<sending, storeTick, pullErr>>
    /\ UNCHANGED <<doUpdating, updateTimeout, updateInterval, lastWake, lastSignal, pulled,
                   cycleFailed>>
    /\ UNCHANGED <<sources, storeVars, histVars>>
    /\ UNCHANGED othersCycles

\* server.go lines 129-135: the error of SendBlocksTo is assigned to _, the
\* err of ia.GetBlocks() is always nil, and PullSources ends in return nil
PullSourcesReturn(sendErr) == NoError

\* server.go lines 130-135 and 83-89: Store.ReceiveBlocks, PullSources
\* returns, the task chooses its next timeout
CycleEnd ==
    /\ plPc = "store"
    /\ ReceiveBlocks(outBlocks)
    /\ plPc' = "idle"
    /\ updateTimeout' = NextTimeout(updateTimeout, Len(blocks'), updateInterval)
    /\ cycleFailed' = (\A s \in Range(sources) : srcOutcome[s].state = "error")
    /\ pulled' = TRUE
    /\ schedPc' = IF schedPc = PullCalled THEN "wait" ELSE schedPc
    /\ storeTick' = ~storeTick
    /\ pullErr' = PullSourcesReturn(sbErr)
    /\ UNCHANGED <<sending, cycleTick>>
    /\ UNCHANGED <<doUpdating, updateInterval, lastWake, lastSignal>>
    /\ UNCHANGED <<sources, srcPc, srcOutcome, srcRead, outBlocks, sendq, nReceived, sbErr,
                   completion, delivered, cycleBefore, cache>>
    /\ UNCHANGED othersCycles

\* server.go lines 115-121: StartUpdating (v "start") or StopUpdating (v
\* "stop") is called and waits in its send on the unbuffered doUpdatingChan
SignalSend(i, v) ==
    /\ sending[i].v = "none"
    /\ sending' = [sending EXCEPT ![i] = [v |-> v, during |-> cycleTick # storeTick]]
    /\ UNCHANGED <<cycleTick, storeTick, pullErr>>
    /\ UNCHANGED <<schedVars, pipeVars, storeVars, histVars, cache>>
    /\ UNCHANGED othersCycles

\* server.go lines 93-94 and 99: the task receives the value of a waiting
\* send, the call of StartUpdating or StopUpdating returns
SignalReceive(i) ==
    /\ schedPc = "wait"
    /\ sending[i].v # "none"
    /\ doUpdating' = (sending[i].v = "start")
    /\ lastWake' = sending[i].v
    /\ lastSignal' = sending[i].v
    /\ pulled' = FALSE
    /\ schedPc' = "top"
    /\ sending' = [sending EXCEPT ![i].v = "none"]
    /\ UNCHANGED <<cycleTick, storeTick, pullErr>>
    /\ UNCHANGED <<updateTimeout, updateInterval, cycleFailed>>
    /\ UNCHANGED <<pipeVars, storeVars, histVars, cache>>
    /\ UNCHANGED othersCycles

NextCycles ==
    \/ CycleBegin
    \/ \E s \in SourceSet : SourceStep(s)
    \/ SendBlocksToReceive
    \/ SendBlocksToReturn
    \/ CycleEnd
    \/ SchedSkip
    \/ SchedTimer
    \/ \E i \in Senders, v \in {"start", "stop"} : SignalSend(i, v)
    \/ \E i \in Senders : SignalReceive(i)

InitSpecCycles ==
    /\ InitStore /\ InitHist /\ InitReaders /\ InitProxyIdle
    /\ InitUnits
    /\ \E interval \in Intervals : InitSchedulerWith(interval)
    /\ sources = CycleSources
    /\ plPc = "idle"
    /\ srcPc = [s \in SourceSet |-> "done"]
    /\ srcOutcome = [s \in SourceSet |-> NoOutcome]
    /\ srcRead = [s \in SourceSet |-> <<>>]
    /\ outBlocks = <<>>
    /\ sendq = <<>>
    /\ nReceived = 0
    /\ sbErr = NoError
    /\ completion = <<>>
    /\ delivered = [s \in SourceSet |-> <<>>]
    /\ cycleBefore = <<>>

SpecCycles == InitSpecCycles /\ [][NextCycles]_vars

(***************************************************************************)
(* Properties of the block store, checked under Spec.                      *)
(***************************************************************************)
NoTwoWithSameId(s) == \A i \in 1..Len(s) : \A j \in (i + 1)..Len(s) : Id(s[i]) # Id(s[j])

\* C1: after any sequence of ReceiveBlocks calls List() holds no two blocks
\* with the same id, and the index and the sequence hold the same number of
\* blocks.
C1_UniqueIds ==
    /\ NoTwoWithSameId(List)
    /\ Cardinality(DOMAIN index) = Len(List)

\* C2: for every source S the stored blocks of S are exactly the blocks of S
\* in the most recent call whose list held a block of S: List() holds them
\* with their multiplicities, and the index holds no other block of S.
C2_LatestCallPerSource ==
    \A s \in SourceIds :
        /\ BagOf(OfSource(List, s)) = lastOf[s]
        /\ \A id \in DOMAIN index :
               index[id].origin = s => index[id] \in DOMAIN lastOf[s]

\* a call holding only blocks of A has purged blocks of A while B has blocks
C2_Witness ==
    /\ ~panicked
    /\ lastOnly = "A"
    /\ lastPurged
    /\ OfSource(List, "A") # <<>>
    /\ OfSource(List, "B") # <<>>

\* C3: a call whose list holds only blocks of source A leaves the blocks of
\* every other source B in List() as they were, in the same relative order.
C3_OtherSourcesUntouched ==
    [][\A a \in SourceIds :
          lastOnly' = a =>
              \A b \in SourceIds \ {a} : OfSource(blocks', b) = OfSource(blocks, b)]_vars

\* C4: after every completed call List() is ordered by timestamp descending.
C4_ListSortedDesc == IsSortedDesc(List)

\* a call purged blocks and left at least three blocks of both timestamps
C4_Witness ==
    /\ ~panicked
    /\ lastPurged
    /\ Len(List) >= 3
    /\ List[1].ts > List[Len(List)].ts

(***************************************************************************)
(* Properties of concurrent readers, checked under SpecReaders.            *)
(***************************************************************************)
\* C5: a Get(id) or List() executed while ReceiveBlocks is running observes
\* the complete state before the call or the complete state after it, and
\* never an unsorted sequence.
C5_ReadersSeeCompleteStates == seen.complete /\ seen.sorted

(***************************************************************************)
(* Properties of the image proxy, checked under SpecProxy and, for         *)
(* liveness, SpecProxyFair.                                                *)
(***************************************************************************)
AllDone == \A c \in Callers : callers[c].pc = "done"

\* two outputs agree in error, status and body (the X-Cache header aside)
Equivalent(o1, o2) == o1.err = o2.err /\ o1.code = o2.code /\ o1.body = o2.body

\* no upstream fetch has failed
UpstreamWorks == \A o \in 1..Len(dlOps) : dlOps[o].upstream \notin UpstreamErrors

\* C6: concurrent ProxyImage calls for one URL, starting from a cache
\* without an entry for it, cause (while upstream answers) exactly one
\* upstream GET and one transform, and all callers receive equivalent
\* output.
C6_SingleFetch ==
    ((\A k \in CacheKeys : cache0[k] = NoEntry) /\ UpstreamWorks) =>
        /\ upstreamGets <= 1
        /\ transforms <= 1
        /\ AllDone =>
               /\ upstreamGets = 1
               /\ transforms = 1
               /\ \A c1, c2 \in Callers : Equivalent(callers[c1].out, callers[c2].out)

\* the fetch and transform of operation o have ended
FetchFinished(o) == dlOps[o].pc \notin {"get", "transform"}

\* C7: every waiter registered on a download operation receives exactly one
\* result, the single result object of that operation, and no waiter stays
\* blocked once the upstream fetch has finished.
C7_WaitersServed ==
    /\ [](\A c \in Callers :
             /\ Len(callers[c].received) <= 1
             /\ callers[c].received # <<>> =>
                    /\ callers[c].received[1] = dlOps[callers[c].op].data
                    /\ callers[c].received[1].from = callers[c].op)
    /\ \A c \in Callers :
           (callers[c].pc = "wait" /\ FetchFinished(callers[c].op))
               ~> (Len(callers[c].received) = 1)

\* two waiters of one operation have both received its result
C7_Witness ==
    \E c1, c2 \in Callers :
        /\ c1 # c2
        /\ callers[c1].op # NoOp
        /\ callers[c1].op = callers[c2].op
        /\ dlOps[callers[c1].op].downstreamChans = <<c2, c1>>
        /\ callers[c1].received # <<>>
        /\ callers[c2].received # <<>>

\* C8: when the upstream GET or the reading of its body fails, every waiter
\* of that operation receives the same error, each ProxyImage call returns
\* it (the handler answers 500), and the download task leaves the cache as
\* it is.
C8_UpstreamFailure ==
    /\ [](\A o \in 1..Len(dlOps) :
             dlOps[o].upstream \in UpstreamErrors =>
                 /\ dlOps[o].data = [err |-> dlOps[o].upstream, from |-> o,
                                      httpResponseData |-> NoEntry]
                 /\ dlOps[o].touched = "none"
                 /\ \A c \in Callers :
                        callers[c].op = o =>
                            /\ callers[c].received # <<>> =>
                                   callers[c].received[1] = dlOps[o].data
                            /\ callers[c].pc = "done" =>
                                   /\ callers[c].out.err = dlOps[o].upstream
                                   /\ callers[c].out.from = o
                                   /\ callers[c].out.code = 500)
    /\ [][\A o \in 1..Len(dlOps) :
             (dlOps'[o] # dlOps[o] /\ dlOps'[o].upstream \in UpstreamErrors)
                 => cache' = cache]_vars

\* two callers have returned the error of one failed download while the
\* cache still holds what it held
C8_Witness ==
    /\ AllDone
    /\ Len(dlOps) = 1
    /\ dlOps[1].upstream = "readerr"
    /\ dlOps[1].pc = "done"
    /\ \A c \in Callers : callers[c].out.err = "readerr"
    /\ cache = [k \in CacheKeys |-> NoEntry]

(***************************************************************************)
(* Properties of the pipeline cycle, checked under SpecPipeline.           *)
(***************************************************************************)
\* PullSources has returned from a cycle
CycleDone == plPc = "idle" /\ Len(completion) = Len(sources) /\ sources # <<>>

\* every block of list is among the stored blocks, as often as in list
StoreHolds(list) ==
    \A b \in Range(list) :
        Cardinality({i \in 1..Len(list) : list[i] = b})
            <= Cardinality({i \in 1..Len(List) : List[i] = b})

\* C9: with three sources of which the second fails in a cycle, after
\* PullSources returns the store contains all fresh blocks of sources 1 and
\* 3, and for source 2 exactly what it held before the cycle (nothing in
\* the first cycle), under every interleaving.
C9_SecondSourceFails ==
    (/\ CycleDone
     /\ srcOutcome[Sources[1]].state = "ok"
     /\ srcOutcome[Sources[2]].state = "error"
     /\ srcOutcome[Sources[3]].state = "ok")
        => /\ StoreHolds(srcOutcome[Sources[1]].blocks)
           /\ StoreHolds(srcOutcome[Sources[3]].blocks)
           /\ BagOf(OfSource(List, Sources[2])) = BagOf(OfSource(cycleBefore, Sources[2]))

\* SendBlocksTo has returned
SendBlocksToReturned == plPc = "store" \/ CycleDone

\* the error of the first failed source of a completion order, NoError if
\* none failed
RECURSIVE FirstError(_)
FirstError(order) ==
    IF order = <<>> THEN NoError
    ELSE IF srcOutcome[Head(order)].state = "error" THEN ErrorOf(Head(order))
    ELSE FirstError(Tail(order))

\* C10: SendBlocksTo does not abort on a failing source: every source whose
\* fetch succeeds has its list delivered to the receiver exactly once, a
\* failing source delivers nothing, and the result is the error of the
\* first failing source in completion order, nil exactly if none failed.
C10_SendBlocksToResult ==
    /\ \A s \in SourceSet : Len(delivered[s]) <= 1
    /\ SendBlocksToReturned =>
           /\ Range(completion) = Range(sources)
           /\ \A s \in Range(sources) :
                  /\ srcOutcome[s].state \in {"ok", "error"}
                  /\ srcOutcome[s].state = "ok" => delivered[s] = <<srcOutcome[s].blocks>>
                  /\ srcOutcome[s].state = "error" => delivered[s] = <<>>
           /\ sbErr = FirstError(completion)
           /\ sbErr = NoError <=> \A s \in Range(sources) : srcOutcome[s].state = "ok"

\* SendBlocksTo has returned the error of the third source, which failed
\* first; the second failed after it and the first delivered its block
C10_Witness ==
    /\ plPc = "store"
    /\ completion = <<Sources[3], Sources[1], Sources[2]>>
    /\ srcOutcome[Sources[3]].state = "error"
    /\ srcOutcome[Sources[2]].state = "error"
    /\ delivered[Sources[1]] = <<(<<FreshBlock(Sources[1], "t1", 1)>>)>>
    /\ sbErr = ErrorOf(Sources[3])

\* pullSource task s is inside receiver.ReceiveBlocks
Delivering(s) == srcPc[s] \in {"feed", "read", "write"}

\* C11: SendBlocksTo returns only after every per-source task has completed,
\* its ReceiveBlocks call returned and its result received; once all have
\* (at once with no sources) it can return; and a source that has fetched
\* delivers without waiting for the other sources, whatever they are doing.
C11_ReturnsAfterAllSources ==
    /\ plPc = "store" => \A s \in Range(sources) : srcPc[s] = "done"
    /\ (plPc = "collect" /\ \A s \in Range(sources) : srcPc[s] = "done")
           => ENABLED SendBlocksToReturn
    /\ (plPc = "collect" /\ \E s \in Range(sources) : srcPc[s] # "done")
           => ~ENABLED SendBlocksToReturn
    /\ \A s \in Range(sources) : Delivering(s) => ENABLED SourceStep(s)

\* the first source's list has been delivered and its task has completed
\* while the third source is still fetching
C11_Witness ==
    /\ plPc = "collect"
    /\ srcPc[Sources[1]] = "done"
    /\ delivered[Sources[1]] = <<(<<FreshBlock(Sources[1], "t1", 1)>>)>>
    /\ srcPc[Sources[3]] = "fetch"

(***************************************************************************)
(* Properties of the update task, checked under SpecScheduler.             *)
(***************************************************************************)
\* the one-step cycle of SpecScheduler leaves in ia.outBlocks what the
\* cycle of SpecPipeline can leave there
CycleAsOneStep ==
    (plPc = "store" /\ sources # <<>>) => outBlocks \in AnalyzerOutcomes(srcOutcome)

\* the scheduler is Active: the last control signal it received was a start
Active == lastSignal = "start"

\* C12: a pipeline cycle starts only while the scheduler is Active: none
\* before the first start signal and none between a stop signal and the
\* next start signal, also not when the timer expires; while the scheduler
\* is Idle the stored blocks do not change.
C12_CyclesOnlyWhileActive ==
    /\ [][pulled' /\ ~pulled => Active]_vars
    /\ [][~Active => blocks' = blocks /\ index' = index]_vars

\* the timer has expired while the scheduler was Idle after a stop signal,
\* the store holding a block of an earlier cycle, and no cycle was started
C12_Witness ==
    /\ schedPc = "wait"
    /\ lastSignal = "stop"
    /\ lastWake = "timer"
    /\ ~pulled
    /\ Len(blocks) > 0

\* C13: after the scheduler has received a start signal it runs one full
\* pipeline cycle before it waits again; after that cycle the timeout is
\* the configured steady-state interval if the store holds a block and
\* still the bootstrap value if it holds none, and the scheduler is Active.
C13_CycleAfterStart ==
    (schedPc = "wait" /\ lastWake = "start")
        => /\ pulled
           /\ doUpdating
           /\ Active
           /\ Size > 0 => updateTimeout = updateInterval
           /\ Size = 0 => updateTimeout = BootstrapTimeout

\* the cycle after a start signal stored a block and the timeout is the
\* configured interval of 3
C13_Witness ==
    /\ schedPc = "wait"
    /\ lastWake = "start"
    /\ pulled
    /\ Size > 0
    /\ updateInterval = 3
    /\ updateTimeout = 3

\* C14: with the steady-state interval configured as 0 or less, a cycle is
\* performed only in response to an explicit start signal and never
\* because the timer elapsed, also after a cycle that left the store empty.
C14_ManualModeNoTimerCycles ==
    (updateInterval <= 0 /\ pulled) => lastWake = "start"

\* C15: while the scheduler is Active with a positive timeout, its wait
\* ends (by the timer, if no control signal arrives), and after a timer
\* expiry while Active another cycle is started.
C15_CyclesRepeat ==
    /\ (schedPc = "wait" /\ doUpdating /\ updateTimeout > 0) ~> (schedPc = "top")
    /\ (schedPc = "top" /\ lastWake = "timer" /\ doUpdating) ~> pulled

\* a cycle has run because the timer expired while the scheduler was Active
C15_Witness ==
    /\ lastWake = "timer"
    /\ doUpdating
    /\ pulled
    /\ updateTimeout > 0

\* C16: a cycle in which every source fetch fails leaves the store as it was
\* before the cycle, and the scheduler goes on: it waits again, where a
\* start signal and, with a positive timeout, the timer wake it, and the
\* next pass of the loop while Active starts another cycle.
C16_FailedCycleKeepsStore ==
    /\ [][(pulled' /\ ~pulled /\ cycleFailed')
             => blocks' = blocks /\ index' = index]_vars
    /\ []((pulled /\ cycleFailed)
             => /\ schedPc = "wait"
                /\ ENABLED SchedSignal(TRUE)
                /\ updateTimeout > 0 => ENABLED SchedTimer)
    /\ []((schedPc = "top" /\ doUpdating) => ENABLED SchedPull)

(***************************************************************************)
(* Properties of ProxyImage and its downloads, checked under SpecProxy.    *)
(***************************************************************************)
\* C17: when the cache holds a parseable entry for the url's key, ProxyImage
\* answers from that entry, registers no download operation, contacts no
\* upstream and marks the response X-Cache: HIT; a response obtained
\* through fetchFromUpstream is marked X-Cache: MISS.
C17_HitAndMissHeaders ==
    /\ [][\A c \in Callers :
            LET me == callers[c]
                entry == cache[cacheKey(me.url)]
            IN  (me.pc = "start" /\ callers'[c] # me /\ Parses(entry))
                    => /\ callers'[c].pc = "respond"
                       /\ callers'[c].resp = entry
                       /\ dlOps' = dlOps
                       /\ operations' = operations
                       /\ upstreamGets' = upstreamGets]_vars
    /\ [](\A c \in Callers :
            LET me == callers[c]
            IN  /\ me.found = "parsed" => me.op = NoOp /\ me.xcache = "HIT"
                /\ (me.pc = "done" /\ me.out.err = "none")
                       => /\ me.out.code = me.resp.code /\ me.out.body = me.resp.body
                          /\ me.found = "parsed" => me.out.xcache = "HIT"
                          /\ me.op # NoOp => me.out.xcache = "MISS"
                          /\ me.op # NoOp \/ me.found = "parsed")

\* the first caller was answered from upstream as a MISS, the second from
\* the entry that download cached as a HIT
C17_Witness ==
    /\ callers[1].pc = "done" /\ callers[1].op # NoOp /\ callers[1].out.xcache = "MISS"
    /\ callers[2].pc = "done" /\ callers[2].found = "parsed" /\ callers[2].out.xcache = "HIT"
    /\ callers[2].out.body = "transformed"

\* download task o takes the step in which its transform fails
FailedTransformStep(o) ==
    /\ dlOps[o].pc = "transform"
    /\ dlOps'[o].pc = "remove"
    /\ dlOps'[o].touched = "delete"

\* C18: right after a download whose transform failed has dealt with the
\* cache, the key holds nothing or the untransformed bytes, and no entry
\* that was there before; afterwards the key never holds unparsable bytes,
\* and holds a transformed payload only if another download stored it.
C18_NoPayloadAfterFailedTransform ==
    /\ [][\A o \in 1..Len(dlOps) :
            FailedTransformStep(o)
                => cache'[cacheKey(dlOps[o].url)]
                       \in {NoEntry, Framed(dlOps[o].code, "original")}]_vars
    /\ [](\A o \in 1..Len(dlOps) :
            LET entry == cache[cacheKey(dlOps[o].url)]
            IN  dlOps[o].touched = "delete"
                    => /\ entry # Corrupt
                       /\ entry \notin {NoEntry, Framed(dlOps[o].code, "original")}
                              => \E p \in 1..Len(dlOps) :
                                     /\ p # o
                                     /\ dlOps[p].touched = "set"
                                     /\ dlOps[p].data.httpResponseData = entry)

\* one download has cached its transformed response and a following one,
\* whose transform failed, has removed that entry
C18_Witness ==
    /\ Len(dlOps) = 2
    /\ dlOps[1].touched = "set"
    /\ dlOps[2].touched = "delete"
    /\ dlOps[2].pc = "done"
    /\ cache[cacheKey(dlOps[2].url)] = NoEntry

\* C19: after a successful upstream fetch of an image that cannot be
\* transformed, the original bytes are cached under the url's cache key
\* (so that a following ProxyImage call for the url is a hit).
C19_OriginalBytesCached ==
    [][\A o \in 1..Len(dlOps) :
          FailedTransformStep(o)
              => cache'[cacheKey(dlOps[o].url)] = Framed(dlOps[o].code, "original")]_vars

\* C20: when the entry found for a url does not parse, ProxyImage deletes
\* the entry and goes on as on a miss: it fetches from upstream and marks
\* the response X-Cache: MISS; the unparsable entry is never served.
C20_UnparsableEntryIsAMiss ==
    /\ [][\A c \in Callers :
            LET me == callers[c]
            IN  (me.pc = "delete" /\ callers'[c] # me)
                    => /\ cache'[cacheKey(me.url)] = NoEntry
                       /\ callers'[c].pc = "fetch"]_vars
    /\ [](\A c \in Callers :
            LET me == callers[c]
            IN  me.found = "unparsable"
                    => /\ me.resp # Corrupt
                       /\ me.pc \in {"register", "wait", "received", "respond", "done"}
                              => me.xcache = "MISS"
                       /\ me.pc \in {"wait", "received", "respond", "done"}
                              => me.op # NoOp
                       /\ (me.pc = "done" /\ me.out.err = "none")
                              => /\ me.out.xcache = "MISS"
                                 /\ Framed(me.out.code, me.out.body)
                                        = dlOps[me.op].data.httpResponseData)

\* a caller that found an unparsable entry was answered from upstream
C20_Witness ==
    /\ cache0[cacheKey("u")] = Corrupt
    /\ callers[1].found = "unparsable"
    /\ callers[1].pc = "done"
    /\ callers[1].out.err = "none"
    /\ callers[1].out.xcache = "MISS"

(***************************************************************************)
(* Properties of single calls, checked under SpecCalls.                    *)
(***************************************************************************)
\* C21: a request whose If-None-Match equals the non-empty ETag of the
\* stored response is answered with status not modified and no body,
\* the Last-Modified and ETag headers still replayed; a request whose
\* conditional headers do not match gets the stored status, the content
\* headers and the body.
C21_NotModified ==
    call.fn = "ProxyImage" =>
        LET req == call.req
            resp == call.resp
            tagged == resp.etag # "" /\ req.ifNoneMatch = resp.etag
            older == /\ resp.lastModified > 0 /\ req.ifModifiedSince > 0
                     /\ resp.lastModified < req.ifModifiedSince
        IN  /\ result.validation.lastModified = resp.lastModified
            /\ result.validation.etag = resp.etag
            /\ result.validation.xcache = call.xCacheHeader
            /\ tagged => /\ result.status = StatusNotModified
                          /\ result.body = ""
                          /\ result.contentLength = "" /\ result.contentType = ""
            /\ (~tagged /\ ~older)
                   => /\ result.status = resp.code
                      /\ result.body = resp.body
                      /\ result.contentLength = resp.contentLength
                      /\ result.contentType = resp.contentType

\* a cached response with ETag e1 and a Last-Modified time was asked for
\* with If-None-Match e1 and answered not modified
C21_Witness ==
    /\ call.fn = "ProxyImage"
    /\ call.xCacheHeader = "HIT"
    /\ call.req.ifNoneMatch = "e1"
    /\ call.resp.etag = "e1"
    /\ call.resp.lastModified = 1
    /\ result.status = StatusNotModified
    /\ result.validation.etag = "e1"

\* how often block b occurs in list
CountIn(list, b) == Cardinality({i \in 1..Len(list) : list[i] = b})

\* kept holds the n newest blocks of list: it is sorted, it has n blocks of
\* list, or all if list has fewer, and no block left out is newer than one
\* that is kept
NewestOf(kept, list, n) ==
    /\ IsSortedDesc(kept)
    /\ \A b \in Range(kept) : CountIn(kept, b) <= CountIn(list, b)
    /\ Len(kept) = IF Len(list) < n THEN Len(list) ELSE n
    /\ \A b \in Range(list), k \in Range(kept) :
           CountIn(kept, b) < CountIn(list, b) => ~(b.ts > k.ts)

\* C23: FilteredSource.GetBlocks sorts the nested source's blocks by
\* timestamp descending before any filter runs and applies the filters in
\* their stored order: the result is sorted and made of blocks of the
\* nested list, a limit filter of N alone keeps the N newest blocks, after
\* a title filter the N newest of that title, before a title filter those
\* of the N newest with that title; an error of the nested source is
\* returned with no filter applied.
C23_SortedBeforeFilters ==
    call.fn = "GetBlocks" =>
        LET nested == call.nested
            filters == call.filters
            titled(list, p) == SelectSeq(list, LAMBDA b : b.title = p)
        IN  IF nested.state = "error"
            THEN result.err # NoError /\ result.blocks = nested.blocks
            ELSE /\ result.err = NoError
                 /\ IsSortedDesc(result.blocks)
                 /\ \A b \in Range(result.blocks) :
                        CountIn(result.blocks, b) <= CountIn(nested.blocks, b)
                 /\ filters = <<>> => Len(result.blocks) = Len(nested.blocks)
                 /\ \A n \in {0, 1, 2}, p \in Titles :
                        /\ filters = <<LimitFilter(n)>>
                               => NewestOf(result.blocks, nested.blocks, n)
                        /\ filters = <<TitleFilter(p), LimitFilter(n)>>
                               => NewestOf(result.blocks, titled(nested.blocks, p), n)
                        /\ filters = <<LimitFilter(n), TitleFilter(p)>>
                               => \E newest \in SeqsUpTo(NestedBlocks, n) :
                                      /\ NewestOf(newest, nested.blocks, n)
                                      /\ result.blocks = titled(newest, p)

\* a limit filter of 1 has kept the newer of two blocks that the nested
\* source returned with the older one first
C23_Witness ==
    /\ call.fn = "GetBlocks"
    /\ call.filters = <<LimitFilter(1)>>
    /\ call.nested.state = "ok"
    /\ Len(call.nested.blocks) = 2
    /\ call.nested.blocks[1].ts < call.nested.blocks[2].ts
    /\ result.blocks = <<call.nested.blocks[2]>>

\* the source id Block.Id uses: "" for a block without an Origin
OriginId(b) == IF b.origin # NilOrigin THEN b.origin ELSE ""

\* C24: two blocks with the same source id, title, link and content have
\* the same id and two blocks that differ in one of the four have
\* different ids, also when the fields hold the character "|" (the hash
\* taken as free of collisions).
C24_IdsTellBlocksApart ==
    call.fn = "Id" =>
        (result.id1 = result.id2
            <=> /\ OriginId(call.b1) = OriginId(call.b2)
                /\ call.b1.title = call.b2.title
                /\ call.b1.link = call.b2.link
                /\ call.b1.content = call.b2.content)

\* C22: modValue ForgetSome calls in a row with no write between them, from
\* any value of the counter, erase every key the cache held at their start,
\* each in exactly one of the calls, and leave the cache empty.
C22_ForgetsAllInOneRound ==
    fcCalls = ModValue(forgetPercent)
        => /\ fcKeys = {}
           /\ \A k \in fcStart : fcErased[k] = 1

\* C25: when PullSources hands the blocks of a cycle to Store.ReceiveBlocks
\* no analyzer worker has one of them in hand any more, and no block whose
\* image can be analyzed is stored with zero dimensions.
C25_AnalyzerDrainedBeforeStore ==
    iaPc = "stored"
        => /\ iaBusy = {}
           /\ \A i \in 1..Len(iaStored) :
                  iaStored[i].kind = "image" => iaStored[i].width > 0

\* the download tasks of url that have not finished fetch, transform and
\* cache write
Downloading(url) ==
    {o \in 1..Len(dlOps) : dlOps[o].url = url /\ dlOps[o].pc \in {"get", "transform"}}

\* caller c leaves fetchFromUpstream in this step
Registers(c) == callers[c].pc = "register" /\ callers'[c].pc = "wait"

\* C26: the operations map holds at most one download operation per url
\* and at most one download task per url is fetching, transforming or
\* writing the cache; a fetchFromUpstream call that finds an operation for
\* its url only adds its channel to it and starts no download.
C26_OneDownloadPerUrl ==
    /\ [](\A url \in Urls :
             /\ Cardinality(Downloading(url)) <= 1
             /\ Downloading(url) \subseteq {operations[url]})
    /\ [][\A c \in Callers :
            (Registers(c) /\ operations[callers[c].url] # NoOp)
                => LET o == operations[callers[c].url]
                   IN  /\ Len(dlOps') = Len(dlOps)
                       /\ operations' = operations
                       /\ upstreamGets' = upstreamGets
                       /\ callers'[c].op = o
                       /\ dlOps' = [dlOps EXCEPT ![o].downstreamChans = Append(@, c)]]_vars

\* two callers wait on the one operation of their url, which is fetching
C26_Witness ==
    /\ Len(dlOps) = 1
    /\ dlOps[1].pc = "get"
    /\ dlOps[1].downstreamChans = <<1, 2>>
    /\ callers[1].pc = "wait" /\ callers[2].pc = "wait"

\* the task of operation o is past its removal from the map
Removed(o) == dlOps[o].pc \in {"lock", "send", "done"}

\* C27: a download operation leaves the operations map after its fetch has
\* ended and before any waiter is notified; a fetchFromUpstream call for
\* the url after that creates a new operation with a fetch of its own,
\* also while the old waiters are still being notified, and never adds
\* its channel to the old operation.
C27_RemovedBeforeBroadcast ==
    /\ [](\A o \in 1..Len(dlOps) :
             /\ (Removed(o) \/ dlOps[o].sent > 0) => operations[dlOps[o].url] # o
             /\ operations[dlOps[o].url] = o => dlOps[o].sent = 0
             /\ dlOps[o].pc \in {"get", "transform", "remove"}
                    => operations[dlOps[o].url] = o)
    /\ [][\A o \in 1..Len(dlOps) :
            operations'[dlOps[o].url] # operations[dlOps[o].url]
                /\ operations[dlOps[o].url] = o
                => dlOps[o].pc = "remove" /\ dlOps[o].upstream # "none"]_vars
    /\ [][\A c \in Callers :
            Registers(c)
                => LET o == callers'[c].op
                   IN  /\ dlOps'[o].pc \in {"get", "transform", "remove"}
                       /\ operations'[callers[c].url] = o
                       /\ operations[callers[c].url] = NoOp
                              => /\ o = Len(dlOps) + 1
                                 /\ dlOps'[o].pc = "get"
                                 /\ dlOps'[o].downstreamChans = <<c>>]_vars

\* the first operation is notifying its waiter while a second operation of
\* the same url, made for a later call, is fetching
C27_Witness ==
    /\ Len(dlOps) = 2
    /\ dlOps[1].pc = "send" /\ dlOps[1].sent = 0
    /\ dlOps[2].pc = "get"
    /\ dlOps[2].url = dlOps[1].url
    /\ callers[1].op = 1 /\ callers[2].op = 2

\* every caller has answered and every download task has ended
ProxyAtRest ==
    /\ AllDone
    /\ \A o \in 1..Len(dlOps) : dlOps[o].pc = "done"

\* C28: no interleaving of fetchFromUpstream callers and download tasks
\* deadlocks on operationsMtx and the operations' modifyMtx: some task can
\* take a step until all are done; and a caller that adds its channel
\* never waits for a modifyMtx a notifying download holds.
C28_NoLockDeadlock ==
    /\ ProxyAtRest \/ ENABLED NextProxy
    /\ \A c \in Callers :
           callers[c].pc = "register"
               => /\ operationsMtx = c
                  /\ ENABLED FetchRegister(c)
                  /\ operations[callers[c].url] # NoOp
                         => ~dlOps[operations[callers[c].url]].modifyMtx

\* a caller holds operationsMtx and is about to add its channel while a
\* download task of the same url holds the modifyMtx of its operation and
\* waits for its waiter
C28_Witness ==
    /\ Len(dlOps) = 1
    /\ dlOps[1].modifyMtx
    /\ dlOps[1].pc = "send"
    /\ callers[1].pc = "wait"
    /\ callers[2].pc = "register"
    /\ callers[2].url = dlOps[1].url
    /\ operationsMtx = 2

\* C29: a download task writes a cache entry only after a successful
\* upstream GET and a successful transform of a response with a status
\* below 400; a response with a status of 400 or more never creates or
\* overwrites a cache entry, and is still sent to the waiters.
C29_OnlyGoodResponsesCached ==
    /\ [][\A o \in 1..Len(dlOps) :
            LET key == cacheKey(dlOps[o].url)
            IN  /\ (dlOps'[o].touched = "set" /\ dlOps[o].touched # "set")
                       => /\ dlOps[o].pc = "transform"
                          /\ dlOps[o].upstream = "ok"
                          /\ dlOps[o].code < 400
                          /\ dlOps'[o].data.httpResponseData = Framed(dlOps[o].code, "transformed")
                          /\ cache'[key] = dlOps'[o].data.httpResponseData
                /\ (dlOps[o].pc = "transform" /\ dlOps'[o].pc # "transform"
                        /\ dlOps[o].code >= 400)
                       => /\ cache'[key] \in {cache[key], NoEntry}
                          /\ dlOps'[o].data.httpResponseData.code = dlOps[o].code]_vars
    /\ [][\A key \in CacheKeys :
            (cache'[key] # cache[key] /\ cache'[key] # NoEntry)
                => \E o \in 1..Len(dlOps) :
                       /\ cacheKey(dlOps[o].url) = key
                       /\ dlOps[o].touched # "set" /\ dlOps'[o].touched = "set"]_vars
    /\ [](\A c \in Callers :
             (callers[c].received # <<>> /\ callers[c].op # NoOp
                  /\ dlOps[callers[c].op].upstream = "ok")
                 => callers[c].received[1].httpResponseData.code = dlOps[callers[c].op].code)
    /\ [](\A key \in CacheKeys : cache[key].kind = "response" => cache[key].code < 400)

\* a second download of the url was answered 404 upstream and transformed:
\* its caller has answered 404 and the cache still holds the entry the first
\* download wrote
C29_Witness ==
    /\ Len(dlOps) = 2
    /\ dlOps[1].touched = "set"
    /\ dlOps[2].code = 404
    /\ dlOps[2].pc = "done"
    /\ dlOps[2].touched = "none"
    /\ dlOps[2].data.httpResponseData = Framed(404, "transformed")
    /\ callers[2].pc = "done"
    /\ callers[2].out.code = 404
    /\ cache[cacheKey("u")] = Framed(200, "transformed")

\* a PullSources call of the update task has begun and its
\* Store.ReceiveBlocks has not returned
CycleInProgress == cycleTick # storeTick

\* C30: the update task never has two PullSources cycles in progress: a
\* cycle begins only when the Store.ReceiveBlocks of the one before has
\* returned, a value sent on doUpdatingChan during a cycle is received
\* only when the cycle has ended, and the store changes only in the
\* Store.ReceiveBlocks that ends a cycle.
C30_OneCycleAtATime ==
    /\ [][cycleTick' # cycleTick
            => ~CycleInProgress /\ plPc = "idle" /\ schedPc = "top"]_vars
    /\ [][storeTick' # storeTick
            => CycleInProgress /\ plPc = "store" /\ ~CycleInProgress']_vars
    /\ [][\A i \in Senders :
            (sending[i].v # "none" /\ sending'[i].v = "none")
                => ~CycleInProgress /\ plPc = "idle" /\ schedPc = "wait"]_vars
    /\ [][storeVars' # storeVars => storeTick' # storeTick]_vars
    /\ [](CycleInProgress <=> plPc # "idle")
    /\ [](CycleInProgress <=> schedPc = "pulling")

\* a StopUpdating sent during a cycle has been received after the cycle put
\* a block into the store, and the task is back at the top of its loop
C30_Witness ==
    /\ sending[1] = [v |-> "none", during |-> TRUE]
    /\ lastSignal = "stop"
    /\ schedPc = "top"
    /\ ~CycleInProgress
    /\ cycleTick
    /\ blocks # <<>>

\* the blocks ia.GetBlocks() has to hold after the cycle: the lists of the
\* sources whose fetch succeeded, as a bag
FetchedBag ==
    [b \in UNION {Range(srcOutcome[s].blocks) : s \in Range(sources)} |->
        Cardinality({<<s, i>> \in Range(sources) \X (1..MaxNew) :
                        /\ srcOutcome[s].state = "ok"
                        /\ i <= Len(srcOutcome[s].blocks)
                        /\ srcOutcome[s].blocks[i] = b})]

\* C31: when SendBlocksTo has returned after delivering the results of
\* several sources concurrently to one ImageAnalyzer, the analyzer's
\* GetBlocks holds every block of every source whose fetch succeeded
\* exactly once: the concurrent appends lose and duplicate nothing.
C31_NoDeliveryLost ==
    (plPc = "store" /\ sources # <<>>) => BagOf(outBlocks) = FetchedBag

\* C32: PullSources returns an error that is not nil to the update task
\* whenever SendBlocksTo returned an error in that cycle (so that the task
\* sees and logs the failed cycle).
C32_PullSourcesReportsError ==
    (~CycleInProgress /\ sbErr # NoError) => pullErr # NoError

\* C33: apart from a match of the entity tags, ProxyImage answers not
\* modified with no body when the If-Modified-Since time of the request is
\* equal to or later than the Last-Modified time of the stored response,
\* and sends the full response when Last-Modified is later or one of the
\* two headers is missing or is no time.
C33_NotModifiedSince ==
    (/\ call.fn = "ProxyImage"
     /\ ~(call.resp.etag # "" /\ call.req.ifNoneMatch = call.resp.etag))
        => LET req == call.req
               resp == call.resp
               since == /\ ParsesAsTime(resp.lastModified)
                        /\ ParsesAsTime(req.ifModifiedSince)
                        /\ req.ifModifiedSince >= resp.lastModified
           IN  IF since
               THEN result.status = StatusNotModified /\ result.body = ""
               ELSE result.status = resp.code /\ result.body = resp.body

\* One ReceiveBlocks call on an analyzer of its own (SpecAnalyzer): only the
\* width of blocks with an image that can be probed is ever set, and the
\* output holds the blocks of the call in their order.
SingleCallFrame ==
    /\ \A i \in 1..Len(iaBlocks) : iaBlocks[i].kind # "image" => iaBlocks[i].width = 0
    /\ iaOut \in {<<>>, [i \in 1..Len(iaBlocks) |-> i]}
    /\ iaPc \in {"returned", "stored"} => Len(iaOut) = Len(iaBlocks)

\* C34: a call of ImageAnalyzer.ReceiveBlocks changes nothing but the width
\* and height of its blocks with an image that can be probed: it drops,
\* adds and reorders no block, so its append leaves the analyzer's output
\* as it was, followed by the blocks of the call in the order received.
C34_ReceiveBlocksFrame ==
    [][\A s \in SourceSet :
          (srcPc[s] = "write" /\ srcPc'[s] = "send")
              => outBlocks' = outBlocks \o srcOutcome[s].blocks]_vars

\* C35: BlockStore.ReceiveBlocks called with an empty list leaves the store
\* unchanged (so the stored blocks of a source whose fetch yields no block
\* in a cycle stay in the store).
C35_EmptyListKeepsStore ==
    [][(storeTick' # storeTick /\ outBlocks = <<>>)
          => blocks' = blocks /\ index' = index]_vars

RECURSIVE SumOver(_, _)
SumOver(f, S) ==
    IF S = {} THEN 0
    ELSE LET x == CHOOSE y \in S : TRUE IN f[x] + SumOver(f, S \ {x})

\* C36: during one cycle the analyzer workers alive at the same time are
\* never more than the pool size, runtime.NumCPU() * 2, however many sources
\* deliver their blocks concurrently.
C36_WorkersWithinPool == SumOver(poolAlive, SourceSet) <= PoolSize

\* C37: the block list of a FilteredSource does not depend on the order in
\* which CreateSources added its filters: a limit filter and a title filter
\* in either order yield the same lists for every input.
C37_FilterOrderIrrelevant ==
    call.fn = "CreateSources" =>
        \A o1, o2 \in DOMAIN result.lists : result.lists[o1] = result.lists[o2]

\* C38: ReceiveBlocks completes normally from every reachable store state:
\* once a block without origin source is stored, every later call returns
\* without a panic and the block is still in the store afterwards.
C38_NilOriginAccepted ==
    [][(FirstNil(blocks) # 0 /\ ~panicked) =>
           (~panicked' /\ FirstNil(blocks') # 0)]_vars

====
